---- MODULE Spec2Model ----
(***************************************************************************)
(* A model of codebase-rag: the SQLite index store (src/src/indexer.ts),   *)
(* the chunker (chunker.ts) and the index run of the CLI (cli.ts).         *)
(*                                                                         *)
(* Six specifications share the variables:                                 *)
(*   Spec      - the Indexer's API called in any order on one store;       *)
(*   SpecChunk - chunkFile applied to a bounded family of files;           *)
(*   SpecRun   - index runs (cmdIndex) over a small working tree;          *)
(*   SpecSearch - one search call on a store of four indexed files;        *)
(*   SpecTxn   - searches of one process during indexFile of another;      *)
(*   SpecPath  - two files in directories of any name, indexed and found.  *)
(***************************************************************************)
EXTENDS Integers, Sequences, FiniteSets, TLC

VARIABLES
    documents,      \* rows of table documents
    chunks,         \* rows of table chunks
    chunks_fts,     \* rows of the FTS5 table chunks_fts
    vectors,        \* rows of table vectors
    seqDocuments,   \* sqlite_sequence entry of documents (AUTOINCREMENT)
    seqChunks,      \* sqlite_sequence entry of chunks (AUTOINCREMENT)
    call,           \* the last API call and its arguments; SpecTxn: the
                    \* transaction of indexFile
    ret,            \* what the last API call returned ("error": it threw)
    file,           \* SpecChunk: the file handed to chunkFile
    out,            \* SpecChunk, SpecPath: the list chunkFile returned;
                    \* SpecTxn: the last search call
    cpc,            \* SpecChunk: "ready" before the call, "done" after;
                    \* SpecSearch: "search" before the call, "found" after;
                    \* SpecPath: the step the run is at
    tree,           \* SpecRun: path -> content of the working tree;
                    \* SpecPath: the paths of the two files
    repoDirExists,  \* SpecRun: the clone directory exists
    run             \* SpecRun: run id -> the state of that cmdIndex call

storeVars == <<documents, chunks, chunks_fts, vectors, seqDocuments, seqChunks>>
apiVars   == <<call, ret>>
chunkVars == <<file, out, cpc>>
runVars   == <<tree, repoDirExists, run>>
vars      == <<documents, chunks, chunks_fts, vectors, seqDocuments, seqChunks,
               call, ret, file, out, cpc, tree, repoDirExists, run>>

Min(a, b) == IF a <= b THEN a ELSE b

Range(s) == {s[i] : i \in DOMAIN s}

(***************************************************************************)
(* Bounds of the model.                                                    *)
(***************************************************************************)
\* the longest chunk list one indexFile call of Spec is given
MaxChunks == 2
\* the longest vector list one storeVectors call of Spec is given
MaxVecs == 2
\* the chunk ids the indexFile calls of Spec may use up
MaxChunkId == 2
\* SpecChunk: the longest file without a pattern line
MaxLines == 200
\* SpecChunk: the most pattern lines of a file
MaxDecls == 3
\* SpecRun: the chunk ids the runs may use up
MaxRunChunkId == 9
\* SpecSearch: the most rows the statement of keywordSearch finds
MaxMatches == 3
\* SpecSearch: the largest limit of a search call
MaxLimit == 3

(***************************************************************************)
(* Paths.  A path is the sequence of its components, the data directory    *)
(* first: <<"data", "repos", "app", "a.ts">> is data/repos/app/a.ts.       *)
(***************************************************************************)
\* the last k with p[k] = "repos" that has a component and a slash after it
ReposAt(p) ==
    {k \in 1..Len(p) : p[k] = "repos" /\ k + 2 <= Len(p)}

MaxOf(S) == CHOOSE m \in S : \A x \in S : x <= m

\* filePath.replace(/^.*\/repos\/[^/]+\//, ""): the greedy .* takes the
\* LAST "/repos/<name>/" of the path; a leading "repos" has no slash before it
RelPath(p) ==
    LET at == {k \in ReposAt(p) : k > 1}
    IN  IF at = {} THEN p ELSE SubSeq(p, MaxOf(at) + 2, Len(p))

(***************************************************************************)
(* The store as one value, so that a transaction can be rolled back.       *)
(***************************************************************************)
Store ==
    [documents |-> documents, chunks |-> chunks, chunks_fts |-> chunks_fts,
     vectors |-> vectors, seqDocuments |-> seqDocuments, seqChunks |-> seqChunks]

EmptyStore ==
    [documents |-> {}, chunks |-> {}, chunks_fts |-> {}, vectors |-> {},
     seqDocuments |-> 0, seqChunks |-> 0]

\* SELECT ... FROM documents WHERE repo = ? AND file_path = ?
DocRows(S, repo, filePath) ==
    {d \in S.documents : d.repo = repo /\ d.file_path = filePath}

\* .get(): the first row, or null
DocRow(S, repo, filePath) ==
    CHOOSE d \in DocRows(S, repo, filePath) : TRUE

\* SELECT ... FROM chunks WHERE doc_id = ?
ChunksOfDoc(S, docId) == {c \in S.chunks : c.doc_id = docId}

(***************************************************************************)
(* hasChanged                                                              *)
(***************************************************************************)
\* a plausible slip: the comparison turned around
HasChangedNegated(S, repo, filePath, hash) ==
    DocRows(S, repo, filePath) # {} /\ DocRow(S, repo, filePath).file_hash = hash

HasChanged(S, repo, filePath, hash) ==
    \/ DocRows(S, repo, filePath) = {}
    \/ DocRow(S, repo, filePath).file_hash # hash

(***************************************************************************)
(* indexFile: the statements of the transaction, in order.                 *)
(***************************************************************************)
\* chunks[0]?.language || "unknown"
FirstLanguage(cs) ==
    IF Len(cs) = 0 \/ cs[1].language = "" THEN "unknown" ELSE cs[1].language

\* a plausible slip: the table without UNIQUE(repo, file_path), so that the
\* ON CONFLICT clause never applies
UpsertNoUnique(S, repo, filePath, hash, language) ==
    [S EXCEPT
        !.documents =
            @ \cup {[id |-> S.seqDocuments + 1, repo |-> repo, file_path |-> filePath,
                     file_hash |-> hash, language |-> language]},
        !.seqDocuments = @ + 1]

\* INSERT INTO documents ... ON CONFLICT(repo, file_path) DO UPDATE SET
\* file_hash, language (indexed_at, a time stamp, is left out of the model)
UpsertDocument(S, repo, filePath, hash, language) ==
    IF DocRows(S, repo, filePath) # {}
    THEN [S EXCEPT !.documents =
            {IF d \in DocRows(S, repo, filePath)
                THEN [d EXCEPT !.file_hash = hash, !.language = language]
                ELSE d : d \in @}]
    ELSE [S EXCEPT
            !.documents =
                @ \cup {[id |-> S.seqDocuments + 1, repo |-> repo,
                         file_path |-> filePath, file_hash |-> hash,
                         language |-> language]},
            !.seqDocuments = @ + 1]

\* a plausible slip: the vectors of the old chunks are left behind
KeepVectorsOfDoc(S, docId) == S

\* DELETE FROM vectors WHERE chunk_id IN (SELECT id FROM chunks WHERE doc_id = ?)
DeleteVectorsOfDoc(S, docId) ==
    [S EXCEPT !.vectors =
        {v \in @ : v.chunk_id \notin {c.id : c \in ChunksOfDoc(S, docId)}}]

\* a plausible slip: the postings of the old chunks are left behind
KeepFtsOfDoc(S, docId) == S

\* for (const old of oldChunks) DELETE FROM chunks_fts WHERE rowid = ?
DeleteFtsOfDoc(S, docId) ==
    [S EXCEPT !.chunks_fts =
        {f \in @ : f.rowid \notin {c.id : c \in ChunksOfDoc(S, docId)}}]

\* DELETE FROM chunks WHERE doc_id = ?
DeleteChunksOfDoc(S, docId) ==
    [S EXCEPT !.chunks = {c \in @ : c.doc_id # docId}]

\* One pass of the insert loop on chunk c.  The INSERT fails on
\* UNIQUE(doc_id, start_line); the FTS insert fails on a rowid in use.  A
\* failed statement changes nothing and throws.
InsertChunk(R, docId, c) ==
    LET S  == R.store
        id == S.seqChunks + 1
    IN  IF ~R.ok THEN R
        ELSE IF \E x \in S.chunks : x.doc_id = docId /\ x.start_line = c.startLine
        THEN [R EXCEPT !.ok = FALSE]
        ELSE LET S1 == [S EXCEPT
                            !.chunks = @ \cup
                                {[id |-> id, doc_id |-> docId,
                                  start_line |-> c.startLine, end_line |-> c.endLine,
                                  content |-> c.content, chunk_type |-> c.type]},
                            !.seqChunks = id]
             IN  IF \E f \in S1.chunks_fts : f.rowid = id
                 THEN [store |-> S1, ok |-> FALSE]
                 ELSE [store |-> [S1 EXCEPT !.chunks_fts = @ \cup
                                    {[rowid |-> id, content |-> c.content,
                                      file_path |-> RelPath(c.filePath)]}],
                       ok |-> TRUE]

RECURSIVE InsertChunks(_, _, _, _)
\* for (const chunk of chunks) { ... }, from the i-th chunk on
InsertChunks(R, docId, cs, i) ==
    IF i > Len(cs) THEN R
    ELSE InsertChunks(InsertChunk(R, docId, cs[i]), docId, cs, i + 1)

\* the body of the transaction: where the statements leave the store, and
\* whether all of them succeeded
IndexFileBody(S, repo, filePath, hash, cs) ==
    LET S1  == UpsertDocument(S, repo, filePath, hash, FirstLanguage(cs))
        doc == DocRow(S1, repo, filePath)
        S2  == DeleteVectorsOfDoc(S1, doc.id)
        S3  == DeleteFtsOfDoc(S2, doc.id)
        S4  == DeleteChunksOfDoc(S3, doc.id)
    IN  InsertChunks([store |-> S4, ok |-> TRUE], doc.id, cs, 1)

\* a plausible slip: the statements run outside a transaction, so a failure
\* leaves behind what ran before it
NoTransaction(S, R) == R

\* this.db.transaction(fn)(): COMMIT when fn returns, ROLLBACK and rethrow
\* when it throws
Transaction(S, R) ==
    IF R.ok THEN R ELSE [store |-> S, ok |-> FALSE]

IndexFile(S, repo, filePath, hash, cs) ==
    Transaction(S, IndexFileBody(S, repo, filePath, hash, cs))

(***************************************************************************)
(* storeVectors                                                            *)
(***************************************************************************)
Abs(x) == IF x < 0 THEN -x ELSE x

\* the largest integer up to which every integer is a float32
Float32Exact == 16777216

\* buf.writeFloatLE(x): x rounded to the nearest float32, ties to the even
\* mantissa.  Between 2^24 and 2^25 the float32 values are the even
\* integers; the model's components stay below 2^25.
ToFloat32(x) ==
    IF Abs(x) <= Float32Exact \/ x % 2 = 0 THEN x
    ELSE IF (x - 1) % 4 = 0 THEN x - 1 ELSE x + 1

\* Buffer.alloc(v.length * 4) filled with writeFloatLE, read back by
\* bufferToFloat32: one float32 per component
Float32Buf(v) == [j \in 1..Len(v) |-> ToFloat32(v[j])]

RECURSIVE OrderByStartLineDesc(_)
\* a plausible slip: ORDER BY start_line DESC
OrderByStartLineDesc(cs) ==
    IF cs = {} THEN <<>>
    ELSE LET c == CHOOSE x \in cs : \A y \in cs : y.start_line <= x.start_line
         IN  <<c>> \o OrderByStartLineDesc(cs \ {c})

RECURSIVE OrderByStartLine(_)
\* ORDER BY start_line ASC over a set of chunk rows (start lines differ
\* within one document, by UNIQUE(doc_id, start_line))
OrderByStartLine(cs) ==
    IF cs = {} THEN <<>>
    ELSE LET c == CHOOSE x \in cs : \A y \in cs : x.start_line <= y.start_line
         IN  <<c>> \o OrderByStartLine(cs \ {c})

\* INSERT OR REPLACE INTO vectors (chunk_id, embedding): chunk_id is the
\* primary key, the row of that chunk is replaced
InsertOrReplaceVector(S, chunkId, v) ==
    [S EXCEPT !.vectors =
        {x \in @ : x.chunk_id # chunkId} \cup
            {[chunk_id |-> chunkId, embedding |-> Float32Buf(v)]}]

RECURSIVE StoreVectorsLoop(_, _, _, _)
\* for (let i = 0; i < Math.min(chunks.length, vectors.length); i++)
\* (i is 1-based here)
StoreVectorsLoop(S, cs, vs, i) ==
    IF i > Min(Len(cs), Len(vs)) THEN S
    ELSE StoreVectorsLoop(InsertOrReplaceVector(S, cs[i].id, vs[i]), cs, vs, i + 1)

StoreVectors(S, repo, filePath, vs) ==
    IF DocRows(S, repo, filePath) = {} THEN S
    ELSE LET doc == DocRow(S, repo, filePath)
             cs  == OrderByStartLine(ChunksOfDoc(S, doc.id))
         IN  StoreVectorsLoop(S, cs, vs, 1)

(***************************************************************************)
(* getStats                                                                *)
(***************************************************************************)
GetStats(S) ==
    [totalFiles   |-> Cardinality(S.documents),
     totalChunks  |-> Cardinality(S.chunks),
     totalVectors |-> Cardinality(S.vectors),
     repos        |-> {d.repo : d \in S.documents}]

(***************************************************************************)
(* Search.  What SQLite's FTS5 does with a MATCH expression, and the bm25  *)
(* score it gives a row, are not modelled: the rows the statement of       *)
(* keywordSearch finds, in rank order and with their raw scores, are an    *)
(* input of the call (sql), and so is the order in which the statement of  *)
(* vectorSearch, which has no ORDER BY, produces its rows (scan).          *)
(*                                                                         *)
(* Scores are exact: a lexical score is the fraction num/den, a similarity *)
(* is dot/sqrt(sq), a fused score is the fraction num/RrfUnit.             *)
(***************************************************************************)
\* const k = 60 of hybridSearch
RrfK == 60

\* the least common denominator of 1/61 .. 1/65, the contributions of the
\* first five ranks; no list of the model is longer
RrfUnit == 61 * 31 * 63 * 64 * 65

Max(a, b) == IF a >= b THEN a ELSE b

\* a plausible slip: the list not cut
NoSlice(s, n) == s

\* array.slice(0, n): a negative n counts from the end
JsSlice0(s, n) ==
    IF n >= 0 THEN SubSeq(s, 1, Min(n, Len(s)))
    ELSE SubSeq(s, 1, Max(Len(s) + n, 0))

\* LIMIT n of SQLite: a negative n is no limit
SqlLimit(rows, n) ==
    IF n < 0 THEN rows ELSE SubSeq(rows, 1, Min(n, Len(rows)))

\* an optional query vector: null, or the array
NoVector == [some |-> FALSE, v |-> <<>>]

Some(v) == [some |-> TRUE, v |-> v]

\* the columns the two search statements select of a chunk c of document d
SearchRow(c, d) ==
    [chunk_id |-> c.id, content |-> c.content, start_line |-> c.start_line,
     end_line |-> c.end_line, chunk_type |-> c.chunk_type,
     file_path |-> d.file_path, repo |-> d.repo, language |-> d.language]

\* FROM chunks_fts f JOIN chunks c ON c.rowid = f.rowid
\*                   JOIN documents d ON d.id = c.doc_id
FtsJoin(S) ==
    UNION {{SearchRow(c, d) : d \in {x \in S.documents : x.id = c.doc_id}} :
            c \in {x \in S.chunks : \E f \in S.chunks_fts : f.rowid = x.id}}

\* FROM vectors v JOIN chunks c ON c.id = v.chunk_id
\*                JOIN documents d ON d.id = c.doc_id, with v.embedding
VectorJoin(S) ==
    UNION {UNION {{[row |-> SearchRow(c, d), embedding |-> v.embedding] :
                    d \in {x \in S.documents : x.id = c.doc_id}} :
                  c \in {x \in S.chunks : x.id = v.chunk_id}} :
            v \in S.vectors}

\* query.trim().split(/\s+/).filter((t) => t.length > 0), on the queries of
\* the model
Terms(query) ==
    CASE query = "" -> <<>>
      [] query = "  " -> <<>>
      [] query = "foo" -> <<"foo">>
      [] query = " foo  bar " -> <<"foo", "bar">>
      [] OTHER -> <<query>>

\* a plausible slip: 1 / (1 + |score|), which turns the order round
NormalizeInverse(score) == [num |-> 1, den |-> 1 + Abs(score)]

\* Math.abs(r.score) / (1 + Math.abs(r.score))
NormalizeScore(score) == [num |-> Abs(score), den |-> 1 + Abs(score)]

\* a row as a SearchResult, the path made relative
ToResult(r, score, method) ==
    [filePath |-> RelPath(r.file_path), content |-> r.content,
     startLine |-> r.start_line, endLine |-> r.end_line,
     language |-> r.language, repo |-> r.repo, score |-> score,
     method |-> method]

\* a plausible slip: the statement outside a try
SqlUncaught(sql) == [threw |-> sql.error, caught |-> FALSE, rows |-> sql.rows]

\* try { rows = ...all(terms, limit) ... } catch { return [] }: the error of
\* the statement is caught and does not leave keywordSearch
SqlCaught(sql) == [threw |-> FALSE, caught |-> sql.error, rows |-> sql.rows]

\* keywordSearch.  sql is what the statement does without its LIMIT: it
\* throws (sql.error), or finds sql.rows, best first, each with its raw score
KeywordSearch(S, query, limit, sql) ==
    IF Terms(query) = <<>> THEN <<>>
    ELSE IF SqlCaught(sql).caught THEN <<>>
    ELSE LET rows == SqlLimit(SqlCaught(sql).rows, limit)
         IN  [i \in 1..Len(rows) |->
                ToResult(rows[i], NormalizeScore(rows[i].score), "keyword")]

\* whether keywordSearch throws
KeywordSearchThrows(query, sql) == Terms(query) # <<>> /\ SqlCaught(sql).threw

RECURSIVE Dot(_, _, _)
\* the sum of a[j] * b[j] from the j-th component on
Dot(a, b, j) == IF j > Len(a) THEN 0 ELSE a[j] * b[j] + Dot(a, b, j + 1)

ZeroSimilarity == [dot |-> 0, sq |-> 1]

\* a plausible slip: no test of the denominator, so that 0 / 0 is returned
CosineUnguarded(a, b) ==
    IF Len(a) # Len(b) THEN ZeroSimilarity
    ELSE [dot |-> Dot(a, b, 1), sq |-> Dot(a, a, 1) * Dot(b, b, 1)]

\* cosineSimilarity(a, b): dot / (sqrt(normA) * sqrt(normB)), kept as the
\* pair of dot and normA * normB
CosineSimilarity(a, b) ==
    IF Len(a) # Len(b) THEN ZeroSimilarity
    ELSE LET dot == Dot(a, b, 1)
             normA == Dot(a, a, 1)
             normB == Dot(b, b, 1)
         IN  IF normA = 0 \/ normB = 0 THEN ZeroSimilarity
             ELSE [dot |-> dot, sq |-> normA * normB]

\* x > y for two scores of one kind
ScoreGt(x, y) ==
    IF "dot" \in DOMAIN x
    THEN IF x.dot >= 0 /\ y.dot >= 0 THEN x.dot * x.dot * y.sq > y.dot * y.dot * x.sq
         ELSE IF x.dot < 0 /\ y.dot < 0 THEN x.dot * x.dot * y.sq < y.dot * y.dot * x.sq
         ELSE x.dot >= 0
    ELSE IF x.den = y.den THEN x.num > y.num
         ELSE x.num * y.den > y.num * x.den

\* a plausible slip: no comparison, the element put first
InsertFirst(e, s) == <<e>> \o s

\* s with e put in after the elements that do not come after it: the ones
\* with a higher or an equal score
InsertByScore(e, s) ==
    LET before == {i \in 0..Len(s) : \A j \in 1..i : ~ScoreGt(e.score, s[j].score)}
        at == MaxOf(before)
    IN  SubSeq(s, 1, at) \o <<e>> \o SubSeq(s, at + 1, Len(s))

\* a plausible slip: the sort left out
NoSort(s) == s

RECURSIVE SortByScoreDesc(_)
\* .sort((a, b) => b.score - a.score): by score, the highest first; the
\* sort is stable, elements of equal score keep their order
SortByScoreDesc(s) ==
    IF s = <<>> THEN <<>>
    ELSE InsertByScore(s[Len(s)], SortByScoreDesc(SubSeq(s, 1, Len(s) - 1)))

\* vectorSearch.  scan is the rows of the statement in the order it
\* produces them
VectorSearch(S, queryEmbedding, limit, scan) ==
    LET scored == [i \in 1..Len(scan) |->
                    ToResult(scan[i].row,
                             CosineSimilarity(queryEmbedding, scan[i].embedding),
                             "semantic")]
    IN  JsSlice0(SortByScoreDesc(scored), limit)

\* the key of the Map of hybridSearch: `${filePath}:${startLine}`
Key(r) == <<r.filePath, r.startLine>>

\* a plausible slip: 1 / (k + i) for the element at index i
RrfFromZero(i) == [num |-> RrfUnit \div (RrfK + i - 1), den |-> RrfUnit]

\* 1 / (k + i + 1) for the element at index i, i counted from 1 here
Rrf(i) == [num |-> RrfUnit \div (RrfK + i), den |-> RrfUnit]

\* scores.get(key): the index of the entry, 0 for none
MapIndex(m, key) ==
    IF \E i \in DOMAIN m : m[i].key = key
    THEN CHOOSE i \in DOMAIN m : m[i].key = key
    ELSE 0

\* scores.set(key, value): a Map keeps a key where it was first put
MapSet(m, key, value) ==
    LET e == [key |-> key, score |-> value.score, result |-> value.result]
    IN  IF MapIndex(m, key) = 0 THEN Append(m, e)
        ELSE [m EXCEPT ![MapIndex(m, key)] = e]

RECURSIVE FuseKeyword(_, _, _)
\* for (let i = 0; i < keywordResults.length; i++) scores.set(key, ...)
FuseKeyword(m, keywordResults, i) ==
    IF i > Len(keywordResults) THEN m
    ELSE FuseKeyword(
            MapSet(m, Key(keywordResults[i]),
                   [score |-> Rrf(i),
                    result |-> [keywordResults[i] EXCEPT !.method = "hybrid"]]),
            keywordResults, i + 1)

\* a plausible slip: a result found by both searches keeps the
\* contribution of the vector list alone
AddScoreReplace(old, rrfScore) == rrfScore

\* existing.score += rrfScore
AddScore(old, rrfScore) == [num |-> old.num + rrfScore.num, den |-> RrfUnit]

RECURSIVE FuseVector(_, _, _)
\* for (let i = 0; i < vectorResults.length; i++) { existing ? ... : ... }
FuseVector(m, vectorResults, i) ==
    IF i > Len(vectorResults) THEN m
    ELSE LET key == Key(vectorResults[i])
             at == MapIndex(m, key)
         IN  FuseVector(
                IF at # 0
                THEN [m EXCEPT ![at] =
                        [key |-> key, score |-> AddScore(m[at].score, Rrf(i)),
                         result |-> [m[at].result EXCEPT !.method = "hybrid"]]]
                ELSE MapSet(m, key,
                            [score |-> Rrf(i),
                             result |-> [vectorResults[i] EXCEPT !.method = "hybrid"]]),
                vectorResults, i + 1)

\* hybridSearch
HybridSearch(S, query, queryEmbedding, limit, sql, scan) ==
    LET keywordResults == KeywordSearch(S, query, limit * 2, sql)
    IN  IF ~queryEmbedding.some THEN JsSlice0(keywordResults, limit)
        ELSE LET vectorResults == VectorSearch(S, queryEmbedding.v, limit * 2, scan)
                 scores == FuseVector(FuseKeyword(<<>>, keywordResults, 1),
                                      vectorResults, 1)
                 sorted == JsSlice0(SortByScoreDesc(scores), limit)
             IN  [i \in 1..Len(sorted) |->
                    [sorted[i].result EXCEPT !.score = sorted[i].score]]

\* a plausible slip: the embed call of hybrid outside a try
EmbedUncaught(embedder) ==
    IF embedder.kind = "null" THEN [threw |-> FALSE, queryEmbedding |-> NoVector]
    ELSE IF embedder.kind = "throws" THEN [threw |-> TRUE, queryEmbedding |-> NoVector]
    ELSE [threw |-> FALSE,
          queryEmbedding |-> IF embedder.vectors = <<>> THEN NoVector
                             ELSE Some(embedder.vectors[1])]

\* let queryEmbedding = null; if (this.embedder) { try { [queryEmbedding] =
\* await this.embedder.embed([query]) } catch {} }.  The embedder is null, or
\* its embed call throws, or it returns a list of vectors.
EmbedCaught(embedder) ==
    IF embedder.kind \in {"null", "throws"}
    THEN [threw |-> FALSE, queryEmbedding |-> NoVector]
    ELSE [threw |-> FALSE,
          queryEmbedding |-> IF embedder.vectors = <<>> THEN NoVector
                             ELSE Some(embedder.vectors[1])]

\* SearchEngine.hybrid: whether it rejects, and the list it resolves to
EngineHybrid(S, embedder, query, limit, sql, scan) ==
    LET e == EmbedCaught(embedder)
    IN  IF e.threw THEN [threw |-> TRUE, results |-> <<>>]
        ELSE [threw |-> FALSE,
              results |-> HybridSearch(S, query, e.queryEmbedding, limit, sql, scan)]

(***************************************************************************)
(* The chunker.  A file is its path and what chunkFile reads of its        *)
(* content: whether it can be read, whether it is blank, its number of     *)
(* lines of text, whether the last of them ends in a newline, and the      *)
(* lines whose text, indentation dropped, matches a boundary pattern, each *)
(* with its indentation.  Lines are numbered from 0 as in the code; chunk  *)
(* lines from 1.                                                           *)
(***************************************************************************)
MAX_CHUNK_LINES == 60

OVERLAP_LINES == 8

\* content.split("\n").length: a final newline leaves an empty last piece
SplitLen(f) == IF f.finalNewline THEN f.nLines + 1 ELSE f.nLines

\* LANG_MAP[extname(filePath)] || basename(filePath).toLowerCase(), on the
\* file names of the model
Language(filePath) ==
    LET name == filePath[Len(filePath)]
    IN  CASE name \in {"a.ts", "b.ts"} -> "typescript"
          [] name = "r.md" -> "markdown"
          [] name = "n.json" -> "json"
          [] OTHER -> name

\* BOUNDARY_PATTERNS[language] || []: the languages that have patterns
HasPatterns(language) ==
    language \in {"typescript", "javascript", "python", "rust", "go", "markdown"}

\* lines[i]: its indentation, and whether a pattern of a language that has
\* patterns matches lines[i].trimStart()
LineAt(f, i) ==
    IF \E m \in f.marks : m.idx = i
    THEN LET m == CHOOSE m \in f.marks : m.idx = i
         IN  [indent |-> m.indent, match |-> TRUE]
    ELSE [indent |-> 0, match |-> FALSE]

\* lines.slice(a, b) of a run of lines [first, first + len) of the file
Slice(lines, a, b) ==
    [text |-> lines.text, first |-> lines.first + a,
     len |-> IF Min(b, lines.len) > a THEN Min(b, lines.len) - a ELSE 0]

\* formatChunk: the header naming the relative path and the line range,
\* then the lines
FormatChunk(filePath, lines, startLine, language) ==
    [header |-> [relPath |-> RelPath(filePath), from |-> startLine,
                 to |-> startLine + lines.len - 1],
     body |-> lines]

\* a plausible slip: every top-level pattern line taken for a boundary
MinGapNone(i, lastBoundary) == TRUE

\* if (i - lastBoundary >= 5)
MinGap(i, lastBoundary) == i - lastBoundary >= 5

RECURSIVE FindBoundariesLoop(_, _, _, _)
\* for (let i = 1; i < lines.length; i++) { ... }, from line i on.  A line
\* that matches no pattern leaves boundaries alone, so the loop is taken
\* from one pattern line to the next.
FindBoundariesLoop(f, language, i, boundaries) ==
    LET rest == {m.idx : m \in {x \in f.marks : x.idx >= i /\ x.idx < SplitLen(f)}}
    IN  IF rest = {} THEN boundaries
        ELSE LET k == CHOOSE x \in rest : \A y \in rest : x <= y
                 line == LineAt(f, k)
                 lastBoundary == boundaries[Len(boundaries)]
             IN  IF line.indent > 2
                 THEN FindBoundariesLoop(f, language, k + 1, boundaries)
                 ELSE IF line.match /\ MinGap(k, lastBoundary)
                 THEN FindBoundariesLoop(f, language, k + 1, Append(boundaries, k))
                 ELSE FindBoundariesLoop(f, language, k + 1, boundaries)

FindBoundaries(f, language) ==
    IF ~HasPatterns(language) THEN <<>>
    ELSE FindBoundariesLoop(f, language, 1, <<0>>)

\* a plausible slip: the windows advance past the overlap instead of back
\* by it
WindowAdvancePlus == MAX_CHUNK_LINES + OVERLAP_LINES

\* pos += MAX_CHUNK_LINES - OVERLAP_LINES
WindowAdvance == MAX_CHUNK_LINES - OVERLAP_LINES

\* a plausible slip: the window not clipped to the last line
WindowEndUnclipped(pos, len) == pos + MAX_CHUNK_LINES

\* Math.min(pos + MAX_CHUNK_LINES, lines.length)
WindowEnd(pos, len) == Min(pos + MAX_CHUNK_LINES, len)

RECURSIVE ChunkByWindowLoop(_, _, _, _, _, _, _)
\* while (pos < lines.length) { ...; if (end >= lines.length) break; }
ChunkByWindowLoop(filePath, lines, type, language, lineOffset, pos, acc) ==
    IF pos >= lines.len THEN acc
    ELSE LET end == WindowEnd(pos, lines.len)
             chunkLines == Slice(lines, pos, end)
             chunk == [filePath |-> filePath,
                       startLine |-> pos + lineOffset,
                       endLine |-> end + lineOffset - 1,
                       content |-> FormatChunk(filePath, chunkLines, pos + lineOffset,
                                               language),
                       type |-> type, language |-> language]
         IN  IF end >= lines.len THEN Append(acc, chunk)
             ELSE ChunkByWindowLoop(filePath, lines, type, language, lineOffset,
                                    pos + WindowAdvance, Append(acc, chunk))

ChunkByWindow(filePath, lines, type, language, lineOffset) ==
    ChunkByWindowLoop(filePath, lines, type, language, lineOffset, 0, <<>>)

\* a plausible slip: the sub-chunks numbered from the default offset
SubChunkOffsetDefault(start) == 1

\* the lineOffset chunkByBoundaries passes for a segment that starts at
\* line start (0-based): start + 1
SubChunkOffset(start) == start + 1

\* a plausible slip: the factor 1.5 left out
TooBigAtMax(n) == n > MAX_CHUNK_LINES

\* chunkLines.length > MAX_CHUNK_LINES * 1.5
TooBig(n) == 2 * n > 3 * MAX_CHUNK_LINES

RECURSIVE ChunkByBoundariesLoop(_, _, _, _, _, _, _)
\* for (let i = 0; i < boundaries.length; i++) { ... } (i is 1-based here)
ChunkByBoundariesLoop(filePath, lines, boundaries, type, language, i, acc) ==
    IF i > Len(boundaries) THEN acc
    ELSE LET start == boundaries[i]
             end == IF i + 1 <= Len(boundaries) THEN boundaries[i + 1] ELSE lines.len
             chunkLines == Slice(lines, start, end)
             more == IF TooBig(chunkLines.len)
                     THEN ChunkByWindow(filePath, chunkLines, type, language,
                                        SubChunkOffset(start))
                     ELSE <<[filePath |-> filePath, startLine |-> start + 1,
                             endLine |-> end,
                             content |-> FormatChunk(filePath, chunkLines, start + 1,
                                                     language),
                             type |-> type, language |-> language]>>
         IN  ChunkByBoundariesLoop(filePath, lines, boundaries, type, language, i + 1,
                                   acc \o more)

ChunkByBoundaries(filePath, lines, boundaries, type, language) ==
    ChunkByBoundariesLoop(filePath, lines, boundaries, type, language, 1, <<>>)

\* a plausible slip: the start of the file, always a boundary, taken for a
\* boundary that was found
EnoughBoundariesAny(boundaries) == Len(boundaries) > 0

\* if (boundaries.length > 1)
EnoughBoundaries(boundaries) == Len(boundaries) > 1

\* a plausible slip: the size compared with the wrong constant
SmallFileByOverlap(n) == n <= OVERLAP_LINES

\* if (lines.length <= MAX_CHUNK_LINES): the file is one chunk
SmallFile(n) == n <= MAX_CHUNK_LINES

\* chunkFile, reading file f
ChunkFile(f) ==
    IF ~f.readable \/ f.blank THEN <<>>
    ELSE LET language == Language(f.path)
             type == IF language = "markdown" THEN "doc" ELSE "code"
             lines == [text |-> f.text, first |-> 0, len |-> SplitLen(f)]
         IN  IF SmallFile(lines.len)
             THEN <<[filePath |-> f.path, startLine |-> 1, endLine |-> lines.len,
                     content |-> FormatChunk(f.path, lines, 1, language),
                     type |-> type, language |-> language]>>
             ELSE LET boundaries == FindBoundaries(f, language)
                  IN  IF EnoughBoundaries(boundaries)
                      THEN ChunkByBoundaries(f.path, lines, boundaries, type, language)
                      ELSE ChunkByWindow(f.path, lines, type, language, 1)

(***************************************************************************)
(* Spec: the API of one Indexer, called in any order.                      *)
(***************************************************************************)
\* the (collection, file path) pairs the calls of Spec are about
Files ==
    {[repo |-> "app", filePath |-> <<"data", "repos", "app", "a.ts">>],
     [repo |-> "lib", filePath |-> <<"data", "repos", "lib", "a.ts">>]}

Hashes == {"h1", "h2"}

Texts == {"t1"}

\* the start lines of the chunks given to indexFile in Spec
StartLines == {1, 53}

\* the chunks indexFile is given for a path: any start line, duplicates of
\* one start line included
ChunkArgs(p) ==
    [filePath : {p}, startLine : StartLines, endLine : {60}, content : Texts,
     type : {"code"}, language : {"typescript"}]

SeqsUpTo(S, n) == UNION {[1..k -> S] : k \in 0..n}

\* embeddings of one component; 16777217 is no float32
Embeddings == {<<1>>, <<16777217>>}

\* the vector lists storeVectors is given: the two embeddings in turn, so that
\* neighbouring positions hold different vectors
Alternate(e, n) ==
    [i \in 1..n |-> IF i % 2 = 1 THEN e ELSE CHOOSE x \in Embeddings : x # e]

\* "app" is the document the calls work on; "lib" is the bystander whose rows
\* a call on "app" must leave alone, and takes at most one chunk, at line 1,
\* one hash and one vector
ChunkLists(f) ==
    IF f.repo = "app" THEN SeqsUpTo(ChunkArgs(f.filePath), MaxChunks)
    ELSE SeqsUpTo({c \in ChunkArgs(f.filePath) : c.startLine = 1}, 1)

FileHashes(f) == IF f.repo = "app" THEN Hashes ELSE {"h1"}

VectorLists(f) ==
    {Alternate(e, n) : e \in Embeddings,
                       n \in 0..(IF f.repo = "app" THEN MaxVecs ELSE 1)}

NoCall == [op |-> "none"]

SetStore(S) ==
    /\ documents' = S.documents
    /\ chunks' = S.chunks
    /\ chunks_fts' = S.chunks_fts
    /\ vectors' = S.vectors
    /\ seqDocuments' = S.seqDocuments
    /\ seqChunks' = S.seqChunks

HasChangedCall ==
    \E f \in Files, hash \in Hashes :
        /\ call' = [op |-> "hasChanged", repo |-> f.repo, filePath |-> f.filePath,
                    hash |-> hash]
        /\ ret' = HasChanged(Store, f.repo, f.filePath, hash)
        /\ UNCHANGED <<storeVars, chunkVars, runVars>>

IndexFileCall ==
    \E f \in Files :
        \E hash \in FileHashes(f), cs \in ChunkLists(f) :
            LET R == IndexFile(Store, f.repo, f.filePath, hash, cs)
            IN  /\ R.store.seqChunks <= MaxChunkId
                /\ call' = [op |-> "indexFile", repo |-> f.repo,
                            filePath |-> f.filePath,
                            hash |-> hash, chunks |-> cs]
                /\ ret' = IF R.ok THEN "ok" ELSE "error"
                /\ SetStore(R.store)
                /\ UNCHANGED <<chunkVars, runVars>>

StoreVectorsCall ==
    \E f \in Files :
        \E vs \in VectorLists(f) :
            /\ call' = [op |-> "storeVectors", repo |-> f.repo,
                        filePath |-> f.filePath, vectors |-> vs]
            /\ ret' = "ok"
            /\ SetStore(StoreVectors(Store, f.repo, f.filePath, vs))
            /\ UNCHANGED <<chunkVars, runVars>>

GetStatsCall ==
    /\ call' = [op |-> "getStats"]
    /\ ret' = GetStats(Store)
    /\ UNCHANGED <<storeVars, chunkVars, runVars>>

NoFile == [nLines |-> 0]

Init ==
    /\ documents = {} /\ chunks = {} /\ chunks_fts = {} /\ vectors = {}
    /\ seqDocuments = 0 /\ seqChunks = 0
    /\ call = NoCall /\ ret = "none"
    /\ file = NoFile /\ out = <<>> /\ cpc = "idle"
    /\ tree = <<>> /\ repoDirExists = FALSE /\ run = <<>>

Next ==
    \/ HasChangedCall
    \/ IndexFileCall
    \/ StoreVectorsCall
    \/ GetStatsCall

Spec == Init /\ [][Next]_vars

(***************************************************************************)
(* SpecChunk: chunkFile on a family of files.                              *)
(***************************************************************************)
\* the distance of a pattern line from the pattern line before it (from
\* line 0 for the first): below, at and above the 5 lines findBoundaries
\* asks for, and above the 90 lines of a segment that is sub-chunked
GapChoices == {1, 4, 5, 40, 91}

\* the indentation of a pattern line: at and above the 2 columns allowed
IndentChoices == {2, 3}

\* the number of lines from the last pattern line to the end of the file
TailChoices == {1, 4, 5, 60, 61, 80, 90, 91, 113}

ChunkPaths ==
    {<<"data", "repos", "app", "a.ts">>, <<"data", "repos", "app", "r.md">>,
     <<"data", "repos", "app", "n.json">>}

RECURSIVE MarksOf(_, _, _)
\* the pattern lines of a file given by their distances ds, from the i-th
\* on, the one before at line at
MarksOf(ds, i, at) ==
    IF i > Len(ds) THEN {}
    ELSE {[idx |-> at + ds[i].gap, indent |-> ds[i].indent]}
            \cup MarksOf(ds, i + 1, at + ds[i].gap)

RECURSIVE SumGaps(_, _)
SumGaps(ds, i) == IF i > Len(ds) THEN 0 ELSE ds[i].gap + SumGaps(ds, i + 1)

PlainFiles ==
    {[path |-> p, text |-> "t1", readable |-> TRUE, blank |-> FALSE, nLines |-> n,
      finalNewline |-> nl, marks |-> {}] :
        p \in ChunkPaths, n \in 1..MaxLines, nl \in BOOLEAN}

BlankFiles ==
    {[path |-> p, text |-> "t1", readable |-> TRUE, blank |-> TRUE, nLines |-> n,
      finalNewline |-> nl, marks |-> {}] :
        p \in ChunkPaths, n \in {0, 1, 61}, nl \in BOOLEAN}

UnreadableFiles ==
    {[path |-> p, text |-> "t1", readable |-> FALSE, blank |-> FALSE, nLines |-> 0,
      finalNewline |-> FALSE, marks |-> {}] : p \in ChunkPaths}

\* files with pattern lines; t pieces follow the last pattern line, the
\* empty one after the final newline among them.
\* a file with pattern lines at the distances ds on path p, t pieces after
\* the last pattern line, and the pattern lines first on top of them
MarkedFile(p, ds, t, first) ==
    [path |-> p, text |-> "t1", readable |-> TRUE, blank |-> FALSE,
     nLines |-> SumGaps(ds, 1) + t - 1, finalNewline |-> TRUE,
     marks |-> MarksOf(ds, 1, 0) \cup first]

\* a pattern line: at any of the distances when it is top-level, and at the
\* distances 5 and 40 when it is indented too far to count
DeclChoices ==
    {d \in [gap : GapChoices, indent : IndentChoices] :
        d.indent <= 2 \/ d.gap \in {5, 40}}

DeclSeqs == SeqsUpTo(DeclChoices, MaxDecls) \ {<<>>}

MarkedFiles ==
    {MarkedFile(p, ds, t, {}) : p \in ChunkPaths, ds \in DeclSeqs, t \in TailChoices}

\* TypeScript files with a pattern line as their first line too: files that
\* open with a declaration
DeclFirstFiles ==
    {MarkedFile(<<"data", "repos", "app", "a.ts">>, ds, t,
                {[idx |-> 0, indent |-> 0]}) : ds \in DeclSeqs, t \in TailChoices}

\* the files chunkFile is called on in SpecChunk
ChunkInput(f) ==
    \/ f \in PlainFiles
    \/ f \in BlankFiles
    \/ f \in UnreadableFiles
    \/ f \in MarkedFiles
    \/ f \in DeclFirstFiles

InitChunk ==
    /\ documents = {} /\ chunks = {} /\ chunks_fts = {} /\ vectors = {}
    /\ seqDocuments = 0 /\ seqChunks = 0
    /\ call = NoCall /\ ret = "none"
    /\ ChunkInput(file) /\ out = <<>> /\ cpc = "ready"
    /\ tree = <<>> /\ repoDirExists = FALSE /\ run = <<>>

ChunkFileCall ==
    /\ cpc = "ready"
    /\ out' = ChunkFile(file)
    /\ cpc' = "done"
    /\ UNCHANGED <<storeVars, apiVars, file, runVars>>

NextChunk == ChunkFileCall

SpecChunk == InitChunk /\ [][NextChunk]_vars

(***************************************************************************)
(* SpecRun: index runs of the CLI (cmdIndex) on one data directory.  Each  *)
(* run is a process of its own; the steps of two runs interleave.          *)
(***************************************************************************)
Runs == {"run1", "run2"}

\* filterIndexableFiles(sync.allFiles), in the order of git ls-files
RunFileList ==
    <<<<"data", "repos", "app", "a.ts">>, <<"data", "repos", "app", "b.ts">>>>

\* the contents a file of the repository may have upstream: five lines, 61
\* lines (two windows), and nothing but white space
Contents ==
    {[text |-> "v1", readable |-> TRUE, blank |-> FALSE, nLines |-> 5,
      finalNewline |-> TRUE, marks |-> {}],
     [text |-> "v2", readable |-> TRUE, blank |-> FALSE, nLines |-> 61,
      finalNewline |-> TRUE, marks |-> {}],
     [text |-> "v0", readable |-> TRUE, blank |-> TRUE, nLines |-> 1,
      finalNewline |-> TRUE, marks |-> {}]}

Trees == [Range(RunFileList) -> Contents]

\* the file chunkFile and hashFile read at path p
FileAt(t, p) ==
    [path |-> p, text |-> t[p].text, readable |-> t[p].readable,
     blank |-> t[p].blank, nLines |-> t[p].nLines,
     finalNewline |-> t[p].finalNewline, marks |-> t[p].marks]

\* hashFile: the SHA-256 of the content, taken to tell contents apart
HashFile(f) == <<"sha256", f.text>>

\* sync.repoDir.split("/").pop()
RepoName(p) == p[3]

\* the embedding capability, when it answers: one vector per text, a
\* function of the text alone
TextCode(text) == CASE text = "v1" -> 1 [] text = "v2" -> 2 [] OTHER -> 0

EmbedText(content) ==
    <<TextCode(content.body.text), content.body.first, content.body.len>>

Embed(texts) == [k \in 1..Len(texts) |-> EmbedText(texts[k])]

IdleRun ==
    [pc |-> "idle", isNew |-> FALSE, doEmbed |-> FALSE, i |-> 1, j |-> 1,
     allChunks |-> <<>>, indexed |-> 0, skipped |-> 0, last |-> "none"]

\* the chunk ids one run can use up
RunMaxChunks == 2 * Len(RunFileList)

\* syncRepo, then the set-up of the loop.  The clone or pull brings the
\* working tree to whatever upstream holds.
RunStart(r) ==
    /\ run[r].pc \in {"idle", "done", "failed"}
    /\ seqChunks + RunMaxChunks * (1 + Cardinality({q \in Runs : run[q].pc \in {"index", "embed"}}))
            <= MaxRunChunkId
    /\ \E t \in Trees, doEmbed \in BOOLEAN :
        /\ tree' = t
        /\ repoDirExists' = TRUE
        /\ run' = [run EXCEPT ![r] =
                [IdleRun EXCEPT !.pc = "index", !.isNew = ~repoDirExists,
                                !.doEmbed = doEmbed]]
    /\ UNCHANGED <<storeVars, apiVars, chunkVars>>

\* a plausible slip: the skip test without the hash comparison's negation
SkipsWhenChanged(isNew, changed) == ~isNew /\ changed

\* !sync.isNew && !indexer.hasChanged(repoName, file, hash)
Skips(isNew, changed) == ~isNew /\ ~changed

\* a plausible slip: the chunks of a skipped file are still put on
\* allChunks, so that the file is embedded again
AfterSkipPushed(allChunks, p, cs) ==
    IF Len(cs) = 0 THEN allChunks ELSE Append(allChunks, [filePath |-> p, chunks |-> cs])

\* skipped++; continue: nothing of a skipped file is put on allChunks
AfterSkip(allChunks, p, cs) == allChunks

\* one pass of the loop over the files
RunIndexFile(r) ==
    /\ run[r].pc = "index"
    /\ run[r].i <= Len(RunFileList)
    /\ LET p == RunFileList[run[r].i]
           f == FileAt(tree, p)
           hash == HashFile(f)
           cs == ChunkFile(f)
           R == IndexFile(Store, RepoName(p), p, hash, cs)
       IN  IF Skips(run[r].isNew, HasChanged(Store, RepoName(p), p, hash))
           THEN /\ run' = [run EXCEPT ![r].i = @ + 1, ![r].skipped = @ + 1,
                                      ![r].last = "skipped",
                                      ![r].allChunks = AfterSkip(@, p, cs)]
                /\ UNCHANGED storeVars
           ELSE IF Len(cs) = 0
           THEN /\ run' = [run EXCEPT ![r].i = @ + 1, ![r].last = "empty"]
                /\ UNCHANGED storeVars
           ELSE IF R.ok
           THEN /\ SetStore(R.store)
                /\ run' = [run EXCEPT ![r].i = @ + 1, ![r].indexed = @ + 1,
                                      ![r].last = "indexed",
                                      ![r].allChunks =
                                          Append(@, [filePath |-> p, chunks |-> cs])]
           ELSE \* indexFile throws: main().catch prints and exits
                /\ run' = [run EXCEPT ![r].pc = "failed", ![r].last = "threw"]
                /\ UNCHANGED storeVars
    /\ UNCHANGED <<apiVars, chunkVars, tree, repoDirExists>>

\* the loop over the files is over
RunIndexDone(r) ==
    /\ run[r].pc = "index"
    /\ run[r].i > Len(RunFileList)
    /\ run' = [run EXCEPT ![r].pc = IF run[r].doEmbed THEN "embed" ELSE "stats",
                          ![r].last = "none"]
    /\ UNCHANGED <<storeVars, apiVars, chunkVars, tree, repoDirExists>>

\* a plausible slip: the embed call outside a try, so that its failure
\* reaches main().catch
EmbedFailureUncaught(rn) == [rn EXCEPT !.pc = "failed", !.last = "embed failed"]

\* catch (e) { console.error(`Failed to embed ...`) }: on to the next file
EmbedFailure(rn) == [rn EXCEPT !.j = @ + 1, !.last = "embed failed"]

\* one pass of the loop over allChunks: the embed call answers or throws
RunEmbed(r) ==
    /\ run[r].pc = "embed"
    /\ run[r].j <= Len(run[r].allChunks)
    /\ LET e == run[r].allChunks[run[r].j]
           texts == [k \in 1..Len(e.chunks) |-> e.chunks[k].content]
       IN  \E answers \in BOOLEAN :
            IF answers
            THEN /\ SetStore(StoreVectors(Store, RepoName(e.filePath), e.filePath,
                                          Embed(texts)))
                 /\ run' = [run EXCEPT ![r].j = @ + 1, ![r].last = "embedded"]
            ELSE /\ run' = [run EXCEPT ![r] = EmbedFailure(@)]
                 /\ UNCHANGED storeVars
    /\ UNCHANGED <<apiVars, chunkVars, tree, repoDirExists>>

RunEmbedDone(r) ==
    /\ run[r].pc = "embed"
    /\ run[r].j > Len(run[r].allChunks)
    /\ run' = [run EXCEPT ![r].pc = "stats", ![r].last = "none"]
    /\ UNCHANGED <<storeVars, apiVars, chunkVars, tree, repoDirExists>>

\* indexer.getStats(), indexer.close()
RunStats(r) ==
    /\ run[r].pc = "stats"
    /\ run' = [run EXCEPT ![r] = [IdleRun EXCEPT !.pc = "done"]]
    /\ UNCHANGED <<storeVars, apiVars, chunkVars, tree, repoDirExists>>

InitRun ==
    /\ documents = {} /\ chunks = {} /\ chunks_fts = {} /\ vectors = {}
    /\ seqDocuments = 0 /\ seqChunks = 0
    /\ call = NoCall /\ ret = "none"
    /\ file = NoFile /\ out = <<>> /\ cpc = "idle"
    /\ tree \in Trees /\ repoDirExists = FALSE
    /\ run = [r \in Runs |-> IdleRun]

NextRun ==
    \E r \in Runs :
        \/ RunStart(r)
        \/ RunIndexFile(r)
        \/ RunIndexDone(r)
        \/ RunEmbed(r)
        \/ RunEmbedDone(r)
        \/ RunStats(r)

SpecRun == InitRun /\ [][NextRun]_vars

(***************************************************************************)
(* SpecSearch: one search call on a store that holds four indexed files.   *)
(***************************************************************************)
\* the files of the store and the start lines of their chunks; a.ts of
\* "lib" has the relative path and the start line of the first chunk of
\* a.ts of "app"
SearchFiles ==
    <<[repo |-> "app", filePath |-> <<"data", "repos", "app", "a.ts">>,
       startLines |-> <<1, 53>>],
      [repo |-> "app", filePath |-> <<"data", "repos", "app", "b.ts">>,
       startLines |-> <<1>>],
      [repo |-> "lib", filePath |-> <<"data", "repos", "lib", "a.ts">>,
       startLines |-> <<1>>],
      [repo |-> "lib", filePath |-> <<"data", "repos", "lib", "c.ts">>,
       startLines |-> <<1>>]>>

\* the vectors stored for the chunks of each file, in the order of
\* SearchFiles.  The components are small integers, for which the float32
\* buffer and the similarities computed in doubles are exact.
VectorConfigs ==
    {<< <<>>, <<>>, <<>>, <<>> >>,
     << <<<<1>>, <<1>>>>, <<>>, <<>>, <<<<-1>>>> >>,
     << <<<<1>>>>, <<<<0>>>>, <<<<1>>>>, <<<<1, 0>>>> >>,
     << <<<<-1>>, <<1>>>>, <<<<1>>>>, <<<<-1>>>>, <<<<1>>>> >>}

SearchChunks(f) ==
    [i \in 1..Len(f.startLines) |->
        [filePath |-> f.filePath, startLine |-> f.startLines[i],
         endLine |-> f.startLines[i] + 59, content |-> "t1", type |-> "code",
         language |-> "typescript"]]

RECURSIVE BuildStore(_, _, _)
\* the store after indexFile and storeVectors for the files from the i-th on
BuildStore(S, cfg, i) ==
    IF i > Len(SearchFiles) THEN S
    ELSE LET f == SearchFiles[i]
             S1 == IndexFile(S, f.repo, f.filePath, "h1", SearchChunks(f)).store
         IN  BuildStore(StoreVectors(S1, f.repo, f.filePath, cfg[i]), cfg, i + 1)

SearchStores == {EmptyStore} \cup {BuildStore(EmptyStore, cfg, 1) : cfg \in VectorConfigs}

Queries == {"", "  ", "foo"}

Limits == (-1)..MaxLimit

QueryVectors == {NoVector, Some(<<1>>), Some(<<0>>), Some(<<1, 0>>)}

\* the embedder of a SearchEngine: none, one whose embed call throws, one
\* that returns no vector, one that returns a vector
Embedders ==
    {[kind |-> "null", vectors |-> <<>>], [kind |-> "throws", vectors |-> <<>>],
     [kind |-> "returns", vectors |-> <<>>],
     [kind |-> "returns", vectors |-> <<<<1>>>>]}

\* the raw scores of the rows found, by rank: all different, or with equal
\* scores and a zero
ScoreProfiles ==
    {[i \in 1..MaxMatches |-> i - MaxMatches - 1],
     [i \in 1..MaxMatches |-> IF i = MaxMatches THEN 0 ELSE -2]}

\* row r with its raw score
WithScore(r, score) ==
    [x \in DOMAIN r \cup {"score"} |-> IF x = "score" THEN score ELSE r[x]]

\* the statement of keywordSearch was not run
SqlNotRun == [error |-> FALSE, rows |-> <<>>]

\* what the statement of keywordSearch can do on store S: throw, or find up
\* to MaxMatches of the rows of the join, in any order
SqlOutcomes(S) ==
    {[error |-> TRUE, rows |-> <<>>]} \cup
    {[error |-> FALSE, rows |-> [i \in 1..Len(s) |-> WithScore(s[i], p[i])]] :
        s \in {t \in SeqsUpTo(FtsJoin(S), MaxMatches) :
                \A i, j \in DOMAIN t : i # j => t[i] # t[j]},
        p \in ScoreProfiles}

SqlFor(S, query) == IF Terms(query) = <<>> THEN {SqlNotRun} ELSE SqlOutcomes(S)

RECURSIVE OrderByChunkId(_)
OrderByChunkId(rows) ==
    IF rows = {} THEN <<>>
    ELSE LET r == CHOOSE x \in rows : \A y \in rows : x.row.chunk_id <= y.row.chunk_id
         IN  <<r>> \o OrderByChunkId(rows \ {r})

Reverse(s) == [i \in 1..Len(s) |-> s[Len(s) + 1 - i]]

\* the orders in which the statement of vectorSearch produces its rows: the
\* statement has no ORDER BY; by chunk id upwards and downwards stand for
\* the orders a query plan can give
ScanOrders(S) ==
    {OrderByChunkId(VectorJoin(S)), Reverse(OrderByChunkId(VectorJoin(S)))}

ScanFor(S, queryEmbedding) ==
    IF queryEmbedding.some THEN ScanOrders(S) ELSE {<<>>}

InitSearch ==
    /\ \E S \in SearchStores :
        /\ documents = S.documents /\ chunks = S.chunks
        /\ chunks_fts = S.chunks_fts /\ vectors = S.vectors
        /\ seqDocuments = S.seqDocuments /\ seqChunks = S.seqChunks
    /\ call = NoCall /\ ret = "none"
    /\ file = NoFile /\ out = <<>> /\ cpc = "search"
    /\ tree = <<>> /\ repoDirExists = FALSE /\ run = <<>>

KeywordSearchCall ==
    /\ cpc = "search"
    /\ \E query \in Queries, limit \in Limits :
        \E sql \in SqlFor(Store, query) :
            /\ call' = [op |-> "keywordSearch", query |-> query, limit |-> limit,
                        sql |-> sql, threw |-> KeywordSearchThrows(query, sql)]
            /\ ret' = KeywordSearch(Store, query, limit, sql)
    /\ cpc' = "found"
    /\ UNCHANGED <<storeVars, file, out, runVars>>

VectorSearchCall ==
    /\ cpc = "search"
    /\ \E queryEmbedding \in QueryVectors \ {NoVector}, limit \in Limits :
        \E scan \in ScanOrders(Store) :
            /\ call' = [op |-> "vectorSearch", queryEmbedding |-> queryEmbedding,
                        limit |-> limit, scan |-> scan]
            /\ ret' = VectorSearch(Store, queryEmbedding.v, limit, scan)
    /\ cpc' = "found"
    /\ UNCHANGED <<storeVars, file, out, runVars>>

HybridSearchCall ==
    /\ cpc = "search"
    /\ \E query \in Queries, limit \in Limits, queryEmbedding \in QueryVectors :
        \E sql \in SqlFor(Store, query), scan \in ScanFor(Store, queryEmbedding) :
            /\ call' = [op |-> "hybridSearch", query |-> query, limit |-> limit,
                        queryEmbedding |-> queryEmbedding, sql |-> sql,
                        scan |-> scan]
            /\ ret' = HybridSearch(Store, query, queryEmbedding, limit, sql, scan)
    /\ cpc' = "found"
    /\ UNCHANGED <<storeVars, file, out, runVars>>

EngineHybridCall ==
    /\ cpc = "search"
    /\ \E query \in Queries, limit \in Limits, embedder \in Embedders :
        \E sql \in SqlFor(Store, query),
           scan \in ScanFor(Store, EmbedCaught(embedder).queryEmbedding) :
            /\ call' = [op |-> "hybrid", query |-> query, limit |-> limit,
                        embedder |-> embedder, sql |-> sql, scan |-> scan]
            /\ ret' = EngineHybrid(Store, embedder, query, limit, sql, scan)
    /\ cpc' = "found"
    /\ UNCHANGED <<storeVars, file, out, runVars>>

NextSearch ==
    \/ KeywordSearchCall
    \/ VectorSearchCall
    \/ HybridSearchCall
    \/ EngineHybridCall

SpecSearch == InitSearch /\ [][NextSearch]_vars

(***************************************************************************)
(* SpecTxn: an index process runs indexFile, statement by statement inside *)
(* its transaction, while a search process (the server) reads the same     *)
(* database file through a connection of its own.  The tables hold what    *)
(* is committed; call is the transaction of the writer, with the database  *)
(* as its connection sees it (work); out is the last search call and ret   *)
(* what it returned.                                                       *)
(***************************************************************************)
\* the most transactions of one behaviour
MaxTxns == 2

\* a plausible slip: a reader that sees the statements of a transaction
\* that is not committed
DirtyRead(S, tx) ==
    IF tx.op = "indexFile" /\ tx.pc \notin {"committed", "rolled back"}
    THEN tx.work ELSE S

\* what a statement of another connection reads while transaction tx is
\* open on the database S (journal_mode = WAL, and db.transaction): the
\* last committed state
Snapshot(S, tx) == S

\* the files the writer indexes, and the chunk lists it is given: new
\* content in one chunk, in two, and a list with a start line twice, on
\* which the second INSERT fails
TxFiles ==
    {[repo |-> "app", filePath |-> <<"data", "repos", "app", "a.ts">>],
     [repo |-> "app", filePath |-> <<"data", "repos", "app", "b.ts">>]}

TxChunk(f, startLine) ==
    [filePath |-> f.filePath, startLine |-> startLine, endLine |-> startLine + 59,
     content |-> "t2", type |-> "code", language |-> "typescript"]

TxChunkLists(f) ==
    {<<TxChunk(f, 1)>>, <<TxChunk(f, 1), TxChunk(f, 53)>>,
     <<TxChunk(f, 1), TxChunk(f, 1)>>}

\* the chunks of file (repo, filePath) in database S, as a search can tell
\* them: start line and content
VisibleChunks(S, repo, filePath) ==
    {[startLine |-> c.start_line, content |-> c.content] :
        c \in UNION {ChunksOfDoc(S, d.id) : d \in DocRows(S, repo, filePath)}}

\* those of them that have a vector
VisibleVectors(S, repo, filePath) ==
    {[startLine |-> c.start_line, content |-> c.content] :
        c \in {x \in UNION {ChunksOfDoc(S, d.id) : d \in DocRows(S, repo, filePath)} :
                    \E v \in S.vectors : v.chunk_id = x.id}}

NoSearch == [op |-> "none"]

InitTxn ==
    /\ \E S \in SearchStores \ {EmptyStore} :
        /\ documents = S.documents /\ chunks = S.chunks
        /\ chunks_fts = S.chunks_fts /\ vectors = S.vectors
        /\ seqDocuments = S.seqDocuments /\ seqChunks = S.seqChunks
    /\ call = [op |-> "none", n |-> 0] /\ ret = "none"
    /\ file = NoFile /\ out = NoSearch /\ cpc = "open"
    /\ tree = <<>> /\ repoDirExists = FALSE /\ run = <<>>

TxUnchanged == UNCHANGED <<file, cpc, runVars>>

\* tx(): BEGIN
TxBegin ==
    /\ IF call.op = "none" THEN TRUE ELSE call.pc \in {"committed", "rolled back"}
    /\ call.n < MaxTxns
    /\ \E f \in TxFiles : \E cs \in TxChunkLists(f) :
        call' = [op |-> "indexFile", n |-> call.n + 1, pc |-> "upsert",
                 repo |-> f.repo, filePath |-> f.filePath, hash |-> "h2",
                 chunks |-> cs, i |-> 1, todo |-> {}, work |-> Store,
                 old |-> VisibleChunks(Store, f.repo, f.filePath),
                 oldVectors |-> VisibleVectors(Store, f.repo, f.filePath)]
    /\ ret' = "none" /\ out' = NoSearch
    /\ UNCHANGED storeVars /\ TxUnchanged

\* the document of the transaction, once upserted
TxDoc == DocRow(call.work, call.repo, call.filePath)

\* INSERT INTO documents ... ON CONFLICT ... DO UPDATE
TxUpsert ==
    /\ call.op = "indexFile" /\ call.pc = "upsert"
    /\ call' = [call EXCEPT
                    !.work = UpsertDocument(@, call.repo, call.filePath, call.hash,
                                            FirstLanguage(call.chunks)),
                    !.pc = "delete vectors"]
    /\ UNCHANGED <<storeVars, ret, out>> /\ TxUnchanged

\* DELETE FROM vectors ..., and the SELECT of oldChunks
TxDeleteVectors ==
    /\ call.op = "indexFile" /\ call.pc = "delete vectors"
    /\ call' = [call EXCEPT
                    !.work = DeleteVectorsOfDoc(@, TxDoc.id),
                    !.todo = {c.id : c \in ChunksOfDoc(call.work, TxDoc.id)},
                    !.pc = "delete fts"]
    /\ UNCHANGED <<storeVars, ret, out>> /\ TxUnchanged

\* DELETE FROM chunks_fts WHERE rowid = ?, one pass of the loop
TxDeleteFts ==
    /\ call.op = "indexFile" /\ call.pc = "delete fts" /\ call.todo # {}
    /\ LET rowid == CHOOSE x \in call.todo : \A y \in call.todo : x <= y
       IN  call' = [call EXCEPT
                        !.work.chunks_fts = {f \in @ : f.rowid # rowid},
                        !.todo = @ \ {rowid}]
    /\ UNCHANGED <<storeVars, ret, out>> /\ TxUnchanged

\* DELETE FROM chunks WHERE doc_id = ?
TxDeleteChunks ==
    /\ call.op = "indexFile" /\ call.pc = "delete fts" /\ call.todo = {}
    /\ call' = [call EXCEPT !.work = DeleteChunksOfDoc(@, TxDoc.id),
                             !.pc = "insert"]
    /\ UNCHANGED <<storeVars, ret, out>> /\ TxUnchanged

\* one pass of the insert loop; a failed INSERT throws, and the
\* transaction is rolled back
TxInsertChunk ==
    /\ call.op = "indexFile" /\ call.pc = "insert" /\ call.i <= Len(call.chunks)
    /\ LET R == InsertChunk([store |-> call.work, ok |-> TRUE], TxDoc.id,
                            call.chunks[call.i])
       IN  call' = IF R.ok
                   THEN [call EXCEPT !.work = R.store, !.i = @ + 1]
                   ELSE [call EXCEPT !.work = Store, !.pc = "rolled back"]
    /\ UNCHANGED <<storeVars, ret, out>> /\ TxUnchanged

\* COMMIT
TxCommit ==
    /\ call.op = "indexFile" /\ call.pc = "insert" /\ call.i > Len(call.chunks)
    /\ SetStore(call.work)
    /\ call' = [call EXCEPT !.pc = "committed"]
    /\ UNCHANGED <<ret, out>> /\ TxUnchanged

\* the rows of the join of keywordSearch on S, all of them matching, in the
\* order of their chunk ids, with one raw score
AllMatch(S) ==
    LET rows == OrderByChunkId({[row |-> r] : r \in FtsJoin(S)})
    IN  [error |-> FALSE, rows |-> [i \in 1..Len(rows) |-> WithScore(rows[i].row, -1)]]

\* keywordSearch of the search process, without a limit
TxKeywordSearch ==
    /\ call.op = "indexFile"
    /\ LET S == Snapshot(Store, call)
       IN  /\ out' = [op |-> "keywordSearch", query |-> "foo", limit |-> -1]
           /\ ret' = KeywordSearch(S, "foo", -1, AllMatch(S))
    /\ UNCHANGED <<storeVars, call>> /\ TxUnchanged

\* vectorSearch of the search process, with a limit above the number of
\* vectors
TxVectorSearch ==
    /\ call.op = "indexFile"
    /\ LET S == Snapshot(Store, call)
           limit == Cardinality(S.vectors) + 1
       IN  /\ out' = [op |-> "vectorSearch", queryEmbedding |-> <<1>>,
                      limit |-> limit]
           /\ ret' = VectorSearch(S, <<1>>, limit, OrderByChunkId(VectorJoin(S)))
    /\ UNCHANGED <<storeVars, call>> /\ TxUnchanged

NextTxn ==
    \/ TxBegin
    \/ TxUpsert
    \/ TxDeleteVectors
    \/ TxDeleteFts
    \/ TxDeleteChunks
    \/ TxInsertChunk
    \/ TxCommit
    \/ TxKeywordSearch
    \/ TxVectorSearch

SpecTxn == InitTxn /\ [][NextTxn]_vars

(***************************************************************************)
(* SpecPath: two files of the repository app, in directories of any name,  *)
(* are chunked and indexed, and then searched for.  tree is the list of    *)
(* the two paths, out the chunks of the file indexed last.                 *)
(***************************************************************************)
\* the most directories between the repository root and a file
MaxDirs == 2

DirNames == {"src", "repos", "x"}

FileNames == {"a.ts", "b.ts"}

RepoRoot == <<"data", "repos", "app">>

\* the paths of the files of the repository
RepoPaths ==
    {RepoRoot \o dirs \o <<name>> : dirs \in SeqsUpTo(DirNames, MaxDirs),
                                    name \in FileNames}

\* path p relative to the root of its repository, <data>/repos/<name>/
FromRoot(p) == SubSeq(p, Len(RepoRoot) + 1, Len(p))

\* a file of five lines at path p
FiveLines(p) ==
    [path |-> p, text |-> "v1", readable |-> TRUE, blank |-> FALSE, nLines |-> 5,
     finalNewline |-> TRUE, marks |-> {}]

InitPath ==
    /\ documents = {} /\ chunks = {} /\ chunks_fts = {} /\ vectors = {}
    /\ seqDocuments = 0 /\ seqChunks = 0
    /\ call = NoCall /\ ret = "none"
    /\ file = NoFile /\ out = <<>> /\ cpc = "index 1"
    /\ tree \in {t \in RepoPaths \X RepoPaths : t[1] # t[2]}
    /\ repoDirExists = TRUE /\ run = <<>>

\* one pass of the loop of cmdIndex: chunkFile, hashFile, indexFile
PathIndexFile ==
    /\ cpc \in {"index 1", "index 2"}
    /\ LET p == IF cpc = "index 1" THEN tree[1] ELSE tree[2]
           f == FiveLines(p)
           cs == ChunkFile(f)
       IN  /\ SetStore(IndexFile(Store, RepoName(p), p, HashFile(f), cs).store)
           /\ out' = cs
    /\ cpc' = IF cpc = "index 1" THEN "index 2" ELSE "search"
    /\ UNCHANGED <<apiVars, file, runVars>>

\* keywordSearch without a limit, every chunk matching
PathSearch ==
    /\ cpc = "search"
    /\ call' = [op |-> "keywordSearch", query |-> "foo", limit |-> -1,
                sql |-> AllMatch(Store), threw |-> FALSE]
    /\ ret' = KeywordSearch(Store, "foo", -1, AllMatch(Store))
    /\ cpc' = "found"
    /\ UNCHANGED <<storeVars, file, out, runVars>>

NextPath ==
    \/ PathIndexFile
    \/ PathSearch

SpecPath == InitPath /\ [][NextPath]_vars

(***************************************************************************)
(* Claims about the store, checked under Spec.                             *)
(***************************************************************************)
\* the document rows the last call was about, after and before the call
CallDocs     == {d \in documents : d.repo = call.repo /\ d.file_path = call.filePath}
CallDocsPre  == {d \in documents : d.repo = call'.repo /\ d.file_path = call'.filePath}
CallDocsPost == {d \in documents' : d.repo = call'.repo /\ d.file_path = call'.filePath}

\* what indexFile stores of a chunk it is given
Stored(c) ==
    [start_line |-> c.startLine, end_line |-> c.endLine, content |-> c.content,
     chunk_type |-> c.type]

StoredOfRow(c) ==
    [start_line |-> c.start_line, end_line |-> c.end_line, content |-> c.content,
     chunk_type |-> c.chunk_type]

C1_Step ==
    (call'.op = "indexFile" /\ ret' = "ok") =>
        LET oldIds == {c.id : c \in {x \in chunks : x.doc_id \in {d.id : d \in CallDocsPre}}}
            new    == {c \in chunks' : c.doc_id \in {d.id : d \in CallDocsPost}}
        IN  /\ Cardinality(CallDocsPost) = 1
            /\ Cardinality(new) = Len(call'.chunks)
            /\ {StoredOfRow(c) : c \in new} = {Stored(c) : c \in Range(call'.chunks)}
            /\ \A c \in new : \E f \in chunks_fts' : f.rowid = c.id /\ f.content = c.content
            /\ \A id \in oldIds :
                /\ \A c \in chunks' : c.id # id
                /\ \A f \in chunks_fts' : f.rowid # id
                /\ \A v \in vectors' : v.chunk_id # id

\* C1: when indexFile commits, the document's chunks are exactly the chunks
\* of this call, each with its posting, and no chunk, posting or vector of
\* the set the document had before the call is left.
C1_ReplacesChunkSet == [][C1_Step]_vars

\* the only document of the store had a chunk (chunk 1) and has just been
\* re-indexed with another chunk
C1_Witness ==
    /\ call.op = "indexFile" /\ ret = "ok"
    /\ Len(call.chunks) = 1
    /\ Cardinality(documents) = 1
    /\ seqChunks = 2
    /\ Cardinality(chunks) = 1

HasDuplicateStart(cs) ==
    \E i, j \in DOMAIN cs : i # j /\ cs[i].startLine = cs[j].startLine

C2_Step ==
    call'.op = "indexFile" =>
        /\ HasDuplicateStart(call'.chunks) => ret' = "error"
        /\ ret' = "error" => UNCHANGED storeVars

\* C2: an indexFile call given two chunks of one start line throws, and an
\* indexFile call that throws leaves documents, chunks, postings, vectors
\* and the id counters as they were.
C2_FailureRollsBack == [][C2_Step]_vars

\* a failed call on a document that had chunks and a vector
C2_Witness ==
    /\ call.op = "indexFile" /\ ret = "error"
    /\ \E d \in CallDocs : \E c \in chunks :
        c.doc_id = d.id /\ \E v \in vectors : v.chunk_id = c.id

C3_Unique ==
    \A d1, d2 \in documents :
        (d1.repo = d2.repo /\ d1.file_path = d2.file_path) => d1 = d2

C3_InPlace ==
    /\ \A d \in documents : \E e \in documents' :
        e.id = d.id /\ e.repo = d.repo /\ e.file_path = d.file_path
    /\ (call'.op = "indexFile" /\ ret' = "ok") =>
        \A e \in CallDocsPost :
            /\ e.file_hash = call'.hash
            /\ e.language = "typescript" \/ call'.chunks = <<>>
            /\ CallDocsPre # {} => \E d \in CallDocsPre : d.id = e.id

\* C3: no two documents share (collection, file path); every document keeps
\* its id, collection and path for good, and a committed indexFile leaves
\* the one document of its (collection, file path) with the hash and the
\* language of the call, under the id it had before.
C3_OneDocumentPerPath == []C3_Unique /\ [][C3_InPlace]_vars

\* an existing document was re-indexed under another hash
C3_Witness ==
    /\ call.op = "indexFile" /\ ret = "ok"
    /\ seqDocuments = 1
    /\ seqChunks = 2
    /\ Cardinality(chunks) = 1
    /\ \E d \in CallDocs : d.file_hash = "h2"

C6_Step ==
    call'.op = "hasChanged" =>
        /\ ret' \in BOOLEAN
        /\ ret' <=> \/ \A d \in documents :
                        ~(d.repo = call'.repo /\ d.file_path = call'.filePath)
                    \/ \E d \in documents :
                        /\ d.repo = call'.repo /\ d.file_path = call'.filePath
                        /\ d.file_hash # call'.hash
        /\ UNCHANGED storeVars

\* C6: hasChanged returns true exactly when the store has no document of
\* (collection, path) or has one whose hash is another, and it changes no
\* table.
C6_HasChangedReadsOnly == [][C6_Step]_vars

\* hasChanged answered false: the document exists under the hash asked for
C6_Witness ==
    /\ call.op = "hasChanged" /\ ret = FALSE
    /\ \E d \in CallDocs : d.file_hash = call.hash

\* the position of chunk row c among the rows cs, by ascending start line
Rank(c, cs) == 1 + Cardinality({x \in cs : x.start_line < c.start_line})

C7_Step ==
    call'.op = "storeVectors" =>
        LET cs  == {c \in chunks : c.doc_id \in {d.id : d \in CallDocsPre}}
            vs  == call'.vectors
            of(V, c) == {v \in V : v.chunk_id = c.id}
        IN  /\ ret' = "ok"
            /\ UNCHANGED <<documents, chunks, chunks_fts, seqDocuments, seqChunks>>
            /\ CallDocsPre = {} => vectors' = vectors
            /\ \A c \in cs :
                IF Rank(c, cs) <= Len(vs)
                THEN of(vectors', c) =
                        {[chunk_id |-> c.id,
                          embedding |-> [j \in 1..Len(vs[Rank(c, cs)]) |->
                                            ToFloat32(vs[Rank(c, cs)][j])]]}
                ELSE of(vectors', c) = of(vectors, c)
            /\ \A c \in chunks \ cs : of(vectors', c) = of(vectors, c)
            /\ \A v \in vectors' : \E c \in chunks : c.id = v.chunk_id

\* C7: storeVectors gives the i-th chunk of the document, by ascending start
\* line, the i-th vector (as float32) for every i up to the shorter length;
\* the other chunks of the store keep the vector they had or had not, no
\* vector is stored for anything else, nothing is thrown, and without a
\* document of (collection, path) no table changes.
C7_PositionalVectors == [][C7_Step]_vars

\* one vector was given for a document of two chunks that both had vectors:
\* the first chunk's was replaced, the second chunk's was kept
C7_Witness ==
    /\ call.op = "storeVectors"
    /\ Len(call.vectors) = 1
    /\ \E d \in CallDocs :
        /\ Cardinality({c \in chunks : c.doc_id = d.id}) = 2
        /\ \A c \in chunks : c.doc_id = d.id =>
            \E v \in vectors :
                /\ v.chunk_id = c.id
                /\ (v.embedding = <<1>>) <=> (c.start_line = 1)
    /\ call.vectors[1] = <<1>>

\* C8: every vector row is the row of a chunk in the store, no chunk has
\* two vector rows, and getStats never reports more vectors than chunks.
C8_VectorsBelongToChunks ==
    /\ \A v \in vectors : \E c \in chunks : c.id = v.chunk_id
    /\ \A v1, v2 \in vectors : v1.chunk_id = v2.chunk_id => v1 = v2
    /\ Cardinality(vectors) <= Cardinality(chunks)
    /\ call.op = "getStats" => ret.totalVectors <= ret.totalChunks

\* getStats after a document with vectors was re-indexed and embedded again
C8_Witness ==
    /\ call.op = "getStats"
    /\ ret.totalVectors = 1 /\ ret.totalChunks = 1
    /\ seqChunks = 2

C10_StartLinesIncrease ==
    cpc = "done" =>
        /\ \A i, j \in DOMAIN out : i < j => out[i].startLine < out[j].startLine
        /\ ~HasDuplicateStart(out)
        /\ IndexFile(EmptyStore, "app", file.path, "h1", out).ok

\* sub-chunks of a second segment, after the chunk of the first
C10_Witness ==
    /\ cpc = "done"
    /\ Len(out) = 3
    /\ out[1].endLine = 40
    /\ out[2].startLine = 41 /\ out[3].startLine = 93
    /\ Cardinality(IndexFile(EmptyStore, "app", file.path, "h1", out).store.chunks) = 3

WindowMode(f) ==
    /\ f.readable /\ ~f.blank
    /\ SplitLen(f) > MAX_CHUNK_LINES
    /\ Len(FindBoundaries(f, Language(f.path))) <= 1

\* the number of lines two chunks have in common
SharedLines(a, b) ==
    Cardinality((a.startLine..a.endLine) \cap (b.startLine..b.endLine))

\* C12: of the windows of n > 60 lines, every one but the last has 60
\* lines, each starts 52 lines after the one before and shares 8 lines with
\* it, the last ends at line n, and each has a line the one before has not.
C12_WindowShape ==
    (cpc = "done" /\ WindowMode(file)) =>
        /\ Len(out) >= 2
        /\ \A i \in 1..(Len(out) - 1) :
            /\ out[i].endLine - out[i].startLine + 1 = 60
            /\ out[i + 1].startLine = out[i].startLine + 52
            /\ SharedLines(out[i], out[i + 1]) = 8
            /\ out[i + 1].endLine > out[i].endLine
        /\ out[Len(out)].endLine = SplitLen(file)
        /\ \A i \in DOMAIN out : out[i].endLine <= SplitLen(file)

\* 165 lines: three full windows and a last one of nine lines, eight of them
\* shared
C12_Witness ==
    /\ cpc = "done" /\ WindowMode(file)
    /\ SplitLen(file) = 165
    /\ Len(out) = 4
    /\ out[3].startLine = 105 /\ out[3].endLine = 164
    /\ out[4].startLine = 157 /\ out[4].endLine = 165

\* the lines of the whole file, as chunkFile hands them on
AllLines(f) == [text |-> f.text, first |-> 0, len |-> SplitLen(f)]

ChunkType(f) == IF Language(f.path) = "markdown" THEN "doc" ELSE "code"

\* the sliding-window chunks of the whole file
WholeFileWindows(f) ==
    ChunkByWindow(f.path, AllLines(f), ChunkType(f), Language(f.path), 1)

BoundaryMode(f) ==
    /\ f.readable /\ ~f.blank
    /\ SplitLen(f) > MAX_CHUNK_LINES
    /\ Len(FindBoundaries(f, Language(f.path))) >= 2

\* the chunks of cs that start in lines a..b (1-based), in their order
StartingIn(cs, a, b) ==
    SelectSeq(cs, LAMBDA c : a <= c.startLine /\ c.startLine <= b)

\* C14: in boundary chunking, the chunks that start in a segment of more
\* than 90 lines are the sliding-window chunks of the segment under the
\* file's line numbers, the first from the segment's first line and the last
\* to its last line; in a segment of at most 90 lines starts one chunk, the
\* segment itself; and no chunk has more than 90 lines.
C14_SegmentChunks ==
    (cpc = "done" /\ BoundaryMode(file)) =>
        LET b == FindBoundaries(file, Language(file.path))
        IN  /\ \A i \in DOMAIN b :
                LET start == b[i]
                    end == IF i < Len(b) THEN b[i + 1] ELSE SplitLen(file)
                    seg == StartingIn(out, start + 1, end)
                IN  IF end - start > 90
                    THEN /\ seg = ChunkByWindow(file.path,
                                                Slice(AllLines(file), start, end),
                                                ChunkType(file), Language(file.path),
                                                start + 1)
                         /\ Len(seg) >= 2
                         /\ seg[1].startLine = start + 1
                         /\ seg[Len(seg)].endLine = end
                         /\ \A k \in DOMAIN seg :
                                seg[k].endLine - seg[k].startLine + 1 <= 60
                    ELSE /\ Len(seg) = 1
                         /\ seg[1].startLine = start + 1
                         /\ seg[1].endLine = end
            /\ \A k \in DOMAIN out : out[k].endLine - out[k].startLine + 1 <= 90

\* a first segment of 91 lines in two windows, then a segment of 90 lines
\* in one chunk
C14_Witness ==
    /\ cpc = "done" /\ BoundaryMode(file)
    /\ FindBoundaries(file, Language(file.path)) = <<0, 91>>
    /\ SplitLen(file) = 181
    /\ Len(out) = 3
    /\ out[1].endLine = 60
    /\ out[2].startLine = 53 /\ out[2].endLine = 91
    /\ out[3].startLine = 92 /\ out[3].endLine = 181

\* the top-level declaration lines of f (0-based): the lines that match a
\* pattern and are indented by at most 2 columns
Declarations(f) == {m.idx : m \in {x \in f.marks : x.indent <= 2}}

\* the case of C15: more than 60 lines, a language with patterns, two or
\* more declaration lines each at least 5 lines after the one before, and no
\* more than 90 lines from the start to the first declaration, from one
\* declaration to the next, or from the last to the end
C15_Case ==
    LET D == Declarations(file)
    IN  /\ cpc = "done" /\ file.readable /\ ~file.blank
        /\ SplitLen(file) > MAX_CHUNK_LINES
        /\ HasPatterns(Language(file.path))
        /\ Cardinality(D) >= 2
        /\ \A d, e \in D : d < e => e - d >= 5
        /\ \A d \in D : d <= 90 \/ \E e \in D : e < d /\ d - e <= 90
        /\ \A d \in D : SplitLen(file) - d <= 90 \/ \E e \in D : d < e /\ e - d <= 90

\* C15 as claimed: in that case chunkFile returns as many chunks as there
\* are declaration lines and every chunk starts at a declaration line.
C15_AsClaimed ==
    C15_Case =>
        /\ Len(out) = Cardinality(Declarations(file))
        /\ \A k \in DOMAIN out : out[k].startLine - 1 \in Declarations(file)

\* C15: in that case chunkFile returns one chunk that starts at line 1 and
\* one chunk at every declaration line that is at least 5 lines after line 1,
\* and no other chunk; so there are as many chunks as declaration lines, all
\* at declaration lines, only if line 1 is a declaration line.
C15_DeclarationChunks ==
    C15_Case =>
        LET D == Declarations(file)
            starts == {1} \cup {d + 1 : d \in {x \in D : x >= 5}}
        IN  /\ {out[k].startLine : k \in DOMAIN out} = starts
            /\ Len(out) = Cardinality(starts)
            /\ (0 \in D) =>
                    /\ Len(out) = Cardinality(D)
                    /\ \A k \in DOMAIN out : out[k].startLine - 1 \in D
            /\ (0 \notin D) => \E k \in DOMAIN out : out[k].startLine - 1 \notin D

\* the case of the specification: 200 lines, declarations at lines 1, 41, 81
\* and 121, four chunks
C15_Witness ==
    /\ C15_Case
    /\ SplitLen(file) = 200
    /\ Declarations(file) = {0, 40, 80, 120}
    /\ Len(out) = 4
    /\ out[2].startLine = 41 /\ out[4].startLine = 121 /\ out[4].endLine = 200

(***************************************************************************)
(* Claims about search, checked under SpecSearch.                          *)
(***************************************************************************)
\* the two lists hybridSearch fuses in the call of the state
CallKeywordResults ==
    KeywordSearch(Store, call.query, call.limit * 2, call.sql)

CallVectorResults ==
    VectorSearch(Store, call.queryEmbedding.v, call.limit * 2, call.scan)

\* the ranks (from 1) at which list rs has a result of key key
RanksOf(rs, key) == {i \in DOMAIN rs : Key(rs[i]) = key}

\* 1/(60 + r) in units of 1/RrfUnit
Contribution(r) == RrfUnit \div (60 + r)

\* the contribution of the one rank of R, nothing for no rank
ContributionOf(R) == IF R = {} THEN 0 ELSE Contribution(CHOOSE r \in R : TRUE)

HybridWithVector ==
    cpc = "found" /\ call.op = "hybridSearch" /\ call.queryEmbedding.some

\* C16: in hybridSearch with a query vector, a returned item that is at one
\* rank r1 of the lexical list and one rank r2 of the vector list has the
\* score 1/(60+r1) + 1/(60+r2), which is more than either term, and an item
\* at one rank r of one list only has the score 1/(60+r).
C16_FusedScore ==
    HybridWithVector =>
        \A n \in DOMAIN ret :
            LET KR == RanksOf(CallKeywordResults, Key(ret[n]))
                VR == RanksOf(CallVectorResults, Key(ret[n]))
            IN  (Cardinality(KR) <= 1 /\ Cardinality(VR) <= 1) =>
                    /\ ret[n].score.den = RrfUnit
                    /\ ret[n].score.num = ContributionOf(KR) + ContributionOf(VR)
                    /\ (KR # {} /\ VR # {}) =>
                            /\ ret[n].score.num > ContributionOf(KR)
                            /\ ret[n].score.num > ContributionOf(VR)

\* the first item is at rank 2 of the lexical list and rank 1 of the vector
\* list, the second at rank 1 of the lexical list alone
C16_Witness ==
    /\ HybridWithVector
    /\ call.limit = 2 /\ Len(ret) = 2
    /\ RanksOf(CallKeywordResults, Key(ret[1])) = {2}
    /\ RanksOf(CallVectorResults, Key(ret[1])) = {1}
    /\ ret[1].score.num = Contribution(2) + Contribution(1)
    /\ RanksOf(CallKeywordResults, Key(ret[2])) = {1}
    /\ RanksOf(CallVectorResults, Key(ret[2])) = {}
    /\ ret[2].score.num = Contribution(1)

\* the keys of the two lists in the order hybridSearch comes to them
Discovery ==
    [i \in 1..(Len(CallKeywordResults) + Len(CallVectorResults)) |->
        IF i <= Len(CallKeywordResults) THEN Key(CallKeywordResults[i])
        ELSE Key(CallVectorResults[i - Len(CallKeywordResults)])]

\* where key is first come to
Discovered(key) == CHOOSE i \in DOMAIN Discovery :
                        Discovery[i] = key /\ \A j \in 1..(i - 1) : Discovery[j] # key

\* C17: for a limit of 0 or more the list hybridSearch returns has at most
\* limit items and no item has a higher score than an item before it; with a
\* query vector, of two items of equal score the one whose key is come to
\* first, in the lexical list and then the vector list, is first; and with
\* the lexical keys [A,B,C] and the vector keys [B,A,D] at limit 3 the list
\* starts with A and B.
C17_FusedOrder ==
    (cpc = "found" /\ call.op = "hybridSearch" /\ call.limit >= 0) =>
        /\ Len(ret) <= call.limit
        /\ \A i, j \in DOMAIN ret : i < j => ~ScoreGt(ret[j].score, ret[i].score)
        /\ call.queryEmbedding.some =>
            /\ \A i, j \in DOMAIN ret :
                    (i < j /\ ret[i].score = ret[j].score) =>
                        Discovered(Key(ret[i])) < Discovered(Key(ret[j]))
            /\ LET kw == CallKeywordResults
                   vec == CallVectorResults
               IN  (/\ call.limit = 3 /\ Len(kw) = 3 /\ Len(vec) = 3
                    /\ Cardinality({Key(kw[1]), Key(kw[2]), Key(kw[3]), Key(vec[3])}) = 4
                    /\ Key(vec[1]) = Key(kw[2]) /\ Key(vec[2]) = Key(kw[1]))
                   => /\ Len(ret) = 3
                      /\ Key(ret[1]) = Key(kw[1]) /\ Key(ret[2]) = Key(kw[2])

\* the case of the specification: lexical [A,B,C], vector [B,A,D], limit 3;
\* A and B have equal scores, and so have C and D
C17_Witness ==
    /\ HybridWithVector
    /\ call.limit = 3 /\ Len(ret) = 3
    /\ Len(CallKeywordResults) = 3 /\ Len(CallVectorResults) = 3
    /\ Key(CallVectorResults[1]) = Key(CallKeywordResults[2])
    /\ Key(CallVectorResults[2]) = Key(CallKeywordResults[1])
    /\ Key(CallVectorResults[3]) \notin {Key(CallKeywordResults[i]) : i \in 1..3}
    /\ Key(CallKeywordResults[1]) # Key(CallKeywordResults[2])
    /\ ret[1].score = ret[2].score
    /\ ret[1].score.num = Contribution(1) + Contribution(2)
    /\ Key(ret[1]) = Key(CallKeywordResults[1])
    /\ Key(ret[3]) = Key(CallKeywordResults[3])
    /\ ret[3].score.num = Contribution(3)

\* a hybrid search without a query vector: hybridSearch given null, or
\* SearchEngine.hybrid without an embedder
NoVectorCall ==
    /\ cpc = "found"
    /\ \/ call.op = "hybridSearch" /\ ~call.queryEmbedding.some
       \/ call.op = "hybrid" /\ call.embedder.kind = "null"

\* the list the call returned
Returned == IF call.op = "hybrid" THEN ret.results ELSE ret

\* what C18 says of the list
C18_SameAsKeyword ==
    /\ Returned = KeywordSearch(Store, call.query, call.limit, call.sql)
    /\ \A i \in DOMAIN Returned : Returned[i].method = "keyword"
    /\ Len(Returned) <= call.limit

\* C18 as claimed: for every limit.
C18_AsClaimed == NoVectorCall => C18_SameAsKeyword

\* C18: for every query, every limit of 0 or more and every store, a hybrid
\* search without a query vector returns the list keywordSearch returns
\* for the query and the limit, every item tagged keyword, and no more than
\* limit items.
C18_KeywordOnly == (NoVectorCall /\ call.limit >= 0) => C18_SameAsKeyword

\* three rows found, limit 1: the first of them
C18_Witness ==
    /\ NoVectorCall /\ call.op = "hybridSearch"
    /\ call.limit = 1
    /\ Len(call.sql.rows) = 3
    /\ Len(ret) = 1
    /\ ret[1].method = "keyword"
    /\ ret[1].startLine = call.sql.rows[1].start_line
    /\ ret[1].repo = call.sql.rows[1].repo

\* C19: SearchEngine.hybrid without an embedder, or with one whose embed
\* call throws, does not fail: it returns what hybridSearch returns without
\* a query vector.
C19_EmbedFailureFallsBack ==
    (cpc = "found" /\ call.op = "hybrid"
        /\ call.embedder.kind \in {"null", "throws"}) =>
        /\ ~ret.threw
        /\ ret.results = HybridSearch(Store, call.query, NoVector, call.limit,
                                       call.sql, <<>>)
        /\ \A i \in DOMAIN ret.results : ret.results[i].method = "keyword"

\* the embed call threw and two rows found by the lexical search came back
C19_Witness ==
    /\ cpc = "found" /\ call.op = "hybrid"
    /\ call.embedder.kind = "throws"
    /\ vectors # {}
    /\ ~ret.threw
    /\ Len(ret.results) = 2
    /\ ret.results[1].method = "keyword"

(***************************************************************************)
(* Claims about the index run, checked under SpecRun.                      *)
(***************************************************************************)
\* run r takes its pass of the loop over the files in this step
IndexPass(r) ==
    /\ run[r].pc = "index"
    /\ run[r].i <= Len(RunFileList)
    /\ run'[r] # run[r]

\* the file of that pass, as it is in the working tree
PassFile(r) == FileAt(tree, RunFileList[run[r].i])

\* the rows the store holds for path p: document rows, and the chunks,
\* postings and vectors of their chunks
RowsOf(S, p) ==
    LET ds  == DocRows(S, RepoName(p), p)
        cs  == {c \in S.chunks : c.doc_id \in {d.id : d \in ds}}
        ids == {c.id : c \in cs}
    IN  [documents |-> ds, chunks |-> cs,
         chunks_fts |-> {x \in S.chunks_fts : x.rowid \in ids},
         vectors |-> {v \in S.vectors : v.chunk_id \in ids}]

C4_Step ==
    \A r \in Runs :
        LET f == PassFile(r)
            before == RowsOf(Store, f.path)
            after == RowsOf(Store', f.path)
        IN  (/\ IndexPass(r)
             /\ before.documents # {}
             /\ \A d \in before.documents : d.file_hash # HashFile(f))
            =>  /\ \A d \in after.documents : d.file_hash = HashFile(f)
                /\ {StoredOfRow(c) : c \in after.chunks}
                        = {Stored(c) : c \in Range(ChunkFile(f))}
                /\ after.chunks \cap before.chunks = {}

\* C4: when a run comes to a file whose hash is not the hash the store
\* holds for it, then after the pass the store holds the file's hash and,
\* for its chunks, exactly the chunks of the file's content, none of them a
\* chunk it held before.
C4_ChangedFileReplaced == [][C4_Step]_vars

C5_Skipped(r) ==
    /\ run'[r].last = "skipped"
    /\ run'[r].skipped = run[r].skipped + 1
    /\ run'[r].allChunks = run[r].allChunks
    /\ UNCHANGED storeVars

\* the store holds, for the file of the pass, the hash the file has
C5_Unchanged(r) ==
    LET f == PassFile(r)
        before == RowsOf(Store, f.path)
    IN  /\ IndexPass(r)
        /\ before.documents # {}
        /\ \A d \in before.documents : d.file_hash = HashFile(f)

\* C5 as claimed: in every run, the pass over a file whose hash is the
\* stored one skips it and changes no table.
C5_AsClaimed == [][\A r \in Runs : C5_Unchanged(r) => C5_Skipped(r)]_vars

\* C5: in a run that did not clone the repository, the pass over a file
\* whose hash is the stored one counts it as skipped, puts it on no list
\* for embedding and changes no table.
C5_UnchangedFileSkipped ==
    [][\A r \in Runs : (C5_Unchanged(r) /\ ~run[r].isNew) => C5_Skipped(r)]_vars

\* a run that did not clone has skipped a file that has chunks and vectors
C5_Witness ==
    \E r \in Runs :
        /\ run[r].pc = "index" /\ run[r].i = 2
        /\ ~run[r].isNew
        /\ run[r].last = "skipped"
        /\ LET rows == RowsOf(Store, RunFileList[1])
           IN  /\ \A d \in rows.documents : d.file_hash = HashFile(FileAt(tree, RunFileList[1]))
               /\ Cardinality(rows.chunks) = 2
               /\ Cardinality(rows.vectors) = 2

\* the chunks of the document of file p, as storeVectors reads them
ChunksOfFile(p) ==
    {c \in chunks : \E d \in documents :
        d.repo = RepoName(p) /\ d.file_path = p /\ c.doc_id = d.id}

\* the chunks of file p that have a vector among V
EmbeddedOfFile(V, p) == {c \in ChunksOfFile(p) : \E v \in V : v.chunk_id = c.id}

\* a step of run r in its loop over allChunks
C20_EmbedStep(r) ==
    (run[r].pc = "embed" /\ run'[r] # run[r]) =>
        LET e == run[r].allChunks[run[r].j]
        IN  /\ run'[r].pc \in {"embed", "stats"}
            /\ run'[r].pc = "stats" => run[r].j > Len(run[r].allChunks)
            /\ run'[r].allChunks = run[r].allChunks
            /\ chunks' = chunks /\ documents' = documents
            /\ chunks_fts' = chunks_fts
            /\ run'[r].pc = "embed" =>
                /\ run[r].j <= Len(run[r].allChunks)
                /\ run'[r].j = run[r].j + 1
                /\ run'[r].last \in {"embedded", "embed failed"}
                /\ run'[r].last = "embed failed" => vectors' = vectors
                /\ run'[r].last = "embedded" =>
                    /\ vectors \subseteq vectors'
                       \/ \A v \in vectors \ vectors' :
                            \E c \in ChunksOfFile(e.filePath) : v.chunk_id = c.id
                    /\ Cardinality(ChunksOfFile(e.filePath)) <= Len(e.chunks) =>
                            EmbeddedOfFile(vectors', e.filePath) = ChunksOfFile(e.filePath)

\* C20: in an index run a failed embedding call for one file does not stop
\* the run: the run goes on to the next file of allChunks, whose vectors are
\* stored when its embedding call answers, the failed call changes nothing in
\* the store, no step of the loop removes a document or a chunk, and the run
\* leaves the loop only after the last file, for the statistics.
C20_EmbedFailureSkipsFile == [][\A r \in Runs : C20_EmbedStep(r)]_vars

\* the embedding call failed for a.ts and answered for b.ts: the chunks of
\* both files are in the store, those of b.ts with their vectors
C20_Witness ==
    \E r \in Runs :
        /\ \A q \in Runs \ {r} : run[q] = IdleRun
        /\ run[r].pc = "stats" /\ run[r].doEmbed
        /\ Len(run[r].allChunks) = 2 /\ run[r].j = 3
        /\ ChunksOfFile(RunFileList[1]) # {}
        /\ EmbeddedOfFile(vectors, RunFileList[1]) = {}
        /\ ChunksOfFile(RunFileList[2]) # {}
        /\ EmbeddedOfFile(vectors, RunFileList[2]) = ChunksOfFile(RunFileList[2])

\* a call of keywordSearch
C21_Step ==
    (cpc = "search" /\ call'.op = "keywordSearch") =>
        /\ ~call'.threw
        /\ UNCHANGED storeVars
        /\ (Terms(call'.query) = <<>> \/ call'.sql.error) => ret' = <<>>

\* C21: keywordSearch returns the empty list for a query without a term
\* (empty, or white space only) and for a query whose statement fails; it
\* never throws and never changes the store.
C21_NoTermsOrFailureIsEmpty == [][C21_Step]_vars

\* the statement failed on a store with postings, and the list is empty
C21_Witness ==
    /\ cpc = "found" /\ call.op = "keywordSearch"
    /\ call.query = "foo" /\ call.sql.error
    /\ chunks_fts # {}
    /\ ~call.threw /\ ret = <<>>

\* a call of keywordSearch that returned results
KeywordFound == cpc = "found" /\ call.op = "keywordSearch" /\ ret # <<>>

\* the rows keywordSearch was given by its statement
KeywordRows == SqlLimit(call.sql.rows, call.limit)

\* C22: when the raw scores of the rows are not positive, the i-th result of
\* keywordSearch is the i-th row of the ranking and reports
\* |score| / (1 + |score|), a value of [0,1), and no result reports a higher
\* value than a result before it.
C22_NormalizedScores ==
    (KeywordFound /\ \A i \in DOMAIN KeywordRows : KeywordRows[i].score <= 0) =>
        /\ Len(ret) = Len(KeywordRows)
        /\ \A i \in DOMAIN ret :
            /\ ret[i].startLine = KeywordRows[i].start_line
            /\ ret[i].repo = KeywordRows[i].repo
            /\ ret[i].score.num = 0 - KeywordRows[i].score
            /\ ret[i].score.den = 1 - KeywordRows[i].score
            /\ 0 <= ret[i].score.num /\ ret[i].score.num < ret[i].score.den
        /\ \A i, j \in DOMAIN ret :
            i < j => ret[j].score.num * ret[i].score.den
                        <= ret[i].score.num * ret[j].score.den

\* rows of raw scores -2 .. 0: the first reported as 2/3, the last as 0
C22_Witness ==
    /\ KeywordFound
    /\ Len(ret) >= 3
    /\ KeywordRows[1].score = -2 /\ KeywordRows[2].score = -2
    /\ KeywordRows[Len(ret)].score = 0
    /\ ret[1].score = [num |-> 2, den |-> 3]
    /\ ret[2].score = [num |-> 2, den |-> 3]
    /\ ret[Len(ret)].score = [num |-> 0, den |-> 1]

\* a call of vectorSearch that has returned
VectorFound == cpc = "found" /\ call.op = "vectorSearch"

\* the rows of the statement that result r was made of
ScanRowsOf(r) ==
    {call.scan[k] : k \in {n \in DOMAIN call.scan :
        /\ call.scan[n].row.repo = r.repo
        /\ RelPath(call.scan[n].row.file_path) = r.filePath
        /\ call.scan[n].row.start_line = r.startLine}}

AllZero(v) == \A k \in DOMAIN v : v[k] = 0

\* C23: a result of vectorSearch has similarity 0, a number, when the
\* query vector is all zeros, when its stored vector is all zeros, and when
\* its stored vector and the query vector differ in length.
C23_ZeroSimilarity ==
    VectorFound =>
        \A i \in DOMAIN ret : \A s \in ScanRowsOf(ret[i]) :
            (\/ AllZero(call.queryEmbedding.v)
             \/ AllZero(s.embedding)
             \/ Len(s.embedding) # Len(call.queryEmbedding.v)) =>
                ret[i].score.dot = 0 /\ ret[i].score.sq > 0

\* the query <<1>> on a store with the vectors <<1>>, <<0>> and <<1, 0>>:
\* the third result is the chunk of the vector of two components, with 0
C23_Witness ==
    /\ VectorFound
    /\ call.queryEmbedding.v = <<1>>
    /\ \E v \in vectors : v.embedding = <<0>>
    /\ Len(ret) = 3
    /\ ret[1].score.dot = 1
    /\ \A s \in ScanRowsOf(ret[3]) : s.embedding = <<1, 0>>
    /\ ret[3].score.dot = 0 /\ ret[3].score.sq > 0

\* the similarity vectorSearch computes for a row of its statement
SimilarityOf(s) == CosineSimilarity(call.queryEmbedding.v, s.embedding)

\* C24: for a limit of 0 or more vectorSearch returns min(limit, n) results,
\* n the number of stored vectors that belong to a chunk; each result carries
\* the similarity of the stored vector of its chunk, no result has a higher
\* similarity than a result before it, and no stored vector that is left out
\* has a higher similarity than a returned one.
C24_TopBySimilarity ==
    (VectorFound /\ call.limit >= 0) =>
        /\ Len(call.scan) = Cardinality(VectorJoin(Store))
        /\ Len(ret) = Min(call.limit, Cardinality(VectorJoin(Store)))
        /\ \A i \in DOMAIN ret :
            /\ ScanRowsOf(ret[i]) # {}
            /\ \A s \in ScanRowsOf(ret[i]) : ret[i].score = SimilarityOf(s)
            /\ ret[i].method = "semantic"
        /\ \A i, j \in DOMAIN ret : i < j => ~ScoreGt(ret[j].score, ret[i].score)
        /\ \A k \in DOMAIN call.scan :
            (\A i \in DOMAIN ret : call.scan[k] \notin ScanRowsOf(ret[i])) =>
                \A i \in DOMAIN ret : ~ScoreGt(SimilarityOf(call.scan[k]), ret[i].score)

\* five stored vectors of similarities -1, 1, 1, -1, 1 in the order of the
\* statement, limit 2: two results of similarity 1, three vectors left out
C24_Witness ==
    /\ VectorFound
    /\ call.limit = 2 /\ Len(ret) = 2
    /\ Len(call.scan) = 5
    /\ SimilarityOf(call.scan[1]).dot < 0
    /\ ret[1].score.dot > 0 /\ ret[2].score.dot > 0
    /\ \E k \in DOMAIN call.scan :
        /\ \A i \in DOMAIN ret : call.scan[k] \notin ScanRowsOf(ret[i])
        /\ SimilarityOf(call.scan[k]) = ret[2].score

\* a score that is a number of [0,1]: a fraction num / den, or a similarity
\* dot / sqrt(sq)
InUnitInterval(score) ==
    IF "dot" \in DOMAIN score
    THEN score.dot >= 0 /\ score.dot * score.dot <= score.sq
    ELSE 0 <= score.num /\ score.num <= score.den

\* C25: every result of keywordSearch and of vectorSearch has a score in
\* [0,1].
C25_ScoreInUnitInterval ==
    (cpc = "found" /\ call.op \in {"keywordSearch", "vectorSearch"}) =>
        \A i \in DOMAIN ret : InUnitInterval(ret[i].score)

(***************************************************************************)
(* Claims about a search during indexFile, checked under SpecTxn.          *)
(***************************************************************************)
\* the chunks of the file of the transaction that the last search returned
SeenOfFile ==
    {[startLine |-> ret[i].startLine, content |-> ret[i].content] :
        i \in {n \in DOMAIN ret : /\ ret[n].repo = call.repo
                                  /\ ret[n].filePath = RelPath(call.filePath)}}

\* the chunk set the transaction writes
NewOfFile ==
    {[startLine |-> call.chunks[i].startLine, content |-> call.chunks[i].content] :
        i \in DOMAIN call.chunks}

\* C26: a keywordSearch or vectorSearch that runs after an indexFile call
\* has begun returns, of the chunks of the file of that call, chunks of the
\* old set only or chunks of the new set only; more than that, it returns
\* the whole old set (for vectorSearch, the old chunks that had a vector) or
\* the whole new set (for vectorSearch none, the new chunks have no vector).
C26_OldOrNew ==
    (call.op = "indexFile" /\ out.op \in {"keywordSearch", "vectorSearch"}) =>
        /\ SeenOfFile \subseteq call.old \/ SeenOfFile \subseteq NewOfFile
        /\ out.op = "keywordSearch" =>
                SeenOfFile = call.old \/ SeenOfFile = NewOfFile
        /\ out.op = "vectorSearch" =>
                SeenOfFile = call.oldVectors \/ SeenOfFile = {}

\* the transaction has deleted the old postings and inserted the first of
\* two new chunks, and the search still returned the two old chunks
C26_Witness ==
    /\ call.op = "indexFile" /\ call.pc = "insert" /\ call.i = 2
    /\ Len(call.chunks) = 2
    /\ out.op = "keywordSearch"
    /\ Cardinality(call.old) = 2
    /\ SeenOfFile = call.old
    /\ SeenOfFile # NewOfFile
    /\ VisibleChunks(call.work, call.repo, call.filePath) # call.old

(***************************************************************************)
(* Claims about paths, checked under SpecPath.                             *)
(***************************************************************************)
\* C27: the path in the header of every chunk, and the filePath of every
\* search result, is the path of the file relative to the root of its
\* repository, and the two files are reported under two different paths.
C27_RelativePath ==
    /\ cpc \in {"index 2", "search"} =>
            LET p == IF cpc = "index 2" THEN tree[1] ELSE tree[2]
            IN  \A i \in DOMAIN out : out[i].content.header.relPath = FromRoot(p)
    /\ cpc = "found" =>
        /\ Len(ret) = 2
        /\ {ret[i].filePath : i \in DOMAIN ret} = {FromRoot(tree[1]), FromRoot(tree[2])}
        /\ ret[1].filePath # ret[2].filePath

(***************************************************************************)
(* More claims about the index run, checked under SpecRun.                 *)
(***************************************************************************)
\* C28: under every interleaving of the index runs, every stored vector
\* belongs to a stored chunk and is the embedding of the content of that
\* chunk.
C28_VectorOfOwnContent ==
    \A v \in vectors :
        \E c \in chunks :
            /\ c.id = v.chunk_id
            /\ v.embedding = Float32Buf(EmbedText(c.content))

\* a pass of the loop over the files of a run that is not on a fresh clone,
\* on a file whose hash is the stored one
C30_SkipStep(r) ==
    (/\ run[r].pc = "index" /\ run'[r] # run[r]
     /\ run[r].i <= Len(RunFileList)
     /\ ~run[r].isNew
     /\ ~HasChanged(Store, RepoName(RunFileList[run[r].i]), RunFileList[run[r].i],
                    HashFile(FileAt(tree, RunFileList[run[r].i])))) =>
        /\ run'[r].last = "skipped"
        /\ run'[r].allChunks = run[r].allChunks
        /\ UNCHANGED storeVars

\* a pass of the embed loop of a run
C30_EmbedStep(r) ==
    (run[r].pc = "embed" /\ run'[r] # run[r]) =>
        /\ run'[r].last = "embed failed" => UNCHANGED storeVars
        /\ \A v \in vectors' \ vectors :
            /\ run[r].j <= Len(run[r].allChunks)
            /\ \E c \in ChunksOfFile(run[r].allChunks[run[r].j].filePath) :
                    c.id = v.chunk_id

\* C30: a failed embedding call leaves the chunks of its file stored and
\* without new vectors; a run that is not on a fresh clone skips every file
\* whose hash is the stored one, without putting it on allChunks; and a run
\* stores vectors for the files of its allChunks only.  So the chunks of a
\* file whose embedding failed get no vectors from a later run as long as
\* the content of the file is the same.
C30_FailedEmbeddingNotRetried ==
    [][\A r \in Runs : C30_SkipStep(r) /\ C30_EmbedStep(r)]_vars

\* the embedding of the one chunk of the store failed in one run; the other
\* run, asked to embed and not on a fresh clone, has skipped the file and
\* has left its embed loop, and the chunk has no vector
C30_Witness ==
    \E r \in Runs : \E q \in Runs \ {r} :
        /\ run[q].pc = "embed" /\ run[q].last = "embed failed"
        /\ run[q].j > Len(run[q].allChunks)
        /\ run[r].pc = "stats" /\ run[r].doEmbed /\ ~run[r].isNew
        /\ run[r].skipped >= 1 /\ run[r].allChunks = <<>>
        /\ chunks # {} /\ vectors = {}

(***************************************************************************)
(* A claim about the candidates of hybridSearch, checked under SpecSearch. *)
(***************************************************************************)
\* the stored chunk a result was made of: its collection, path and start
\* line
ChunkOf(r) == [repo |-> r.repo, filePath |-> r.filePath, startLine |-> r.startLine]

\* the ranks at which list rs has a result of stored chunk c
RanksOfChunk(rs, c) == {i \in DOMAIN rs : ChunkOf(rs[i]) = c}

\* the stored chunks of the two lists
Candidates ==
    {ChunkOf(CallKeywordResults[i]) : i \in DOMAIN CallKeywordResults}
        \cup {ChunkOf(CallVectorResults[i]) : i \in DOMAIN CallVectorResults}

\* C29: in hybridSearch with a query vector every stored chunk of the
\* lexical or the vector list has a fused entry of its own: when the limit
\* does not cut the list, the list has one item for every such chunk, and
\* the score of every returned item is the sum of the contributions of its
\* own chunk.
C29_OneEntryPerChunk ==
    (HybridWithVector /\ call.limit >= 0) =>
        /\ Len(ret) = Min(call.limit, Cardinality(Candidates))
        /\ \A n \in DOMAIN ret :
            /\ ChunkOf(ret[n]) \in Candidates
            /\ ret[n].score.num =
                    ContributionOf(RanksOfChunk(CallKeywordResults, ChunkOf(ret[n])))
                    + ContributionOf(RanksOfChunk(CallVectorResults, ChunkOf(ret[n])))

====
